---- MODULE Spec2Model ----
(***************************************************************************)
(* Model of the template parsing engine of calendar-event-generator:       *)
(* the format detector and dispatcher (Parser.Parse, Parser.detectFormat), *)
(* the four dialect converters (weekly, single, recurring, daterange) and  *)
(* the temporal parser they use (TimeParser).                              *)
(*                                                                         *)
(* Text is a sequence of one-character strings, so that case folding,      *)
(* trimming, splitting, prefix tests and byte-order comparison are         *)
(* computed the way the Go code computes them.  An instant is a number of  *)
(* wall-clock seconds in the parser's (fixed-offset) location, counted     *)
(* from 2020-01-01 00:00:00 of that location.                              *)
(***************************************************************************)
EXTENDS Integers, Sequences, FiniteSets, TLC

(***************************************************************************)
(* Text primitives (Go package strings / strconv)                          *)
(***************************************************************************)

Lowers == <<"a","b","c","d","e","f","g","h","i","j","k","l","m",
            "n","o","p","q","r","s","t","u","v","w","x","y","z">>

Uppers == <<"A","B","C","D","E","F","G","H","I","J","K","L","M",
            "N","O","P","Q","R","S","T","U","V","W","X","Y","Z">>

Digits == <<"0","1","2","3","4","5","6","7","8","9">>

\* Position of character c in the table tbl, 0 when absent.
IndexIn(tbl, c) ==
    IF \E i \in 1..Len(tbl) : tbl[i] = c
    THEN CHOOSE i \in 1..Len(tbl) : tbl[i] = c
    ELSE 0

IsDigit(c) == IndexIn(Digits, c) > 0

DigitVal(c) == IndexIn(Digits, c) - 1

\* Byte value of a character (UTF-8 lead byte for the two dashes), the key
\* of sort.Strings' ordering.
ByteOf(c) ==
    IF IndexIn(Lowers, c) > 0 THEN 96 + IndexIn(Lowers, c)
    ELSE IF IndexIn(Uppers, c) > 0 THEN 64 + IndexIn(Uppers, c)
    ELSE IF IsDigit(c) THEN 48 + DigitVal(c)
    ELSE IF c = " " THEN 32
    ELSE IF c = "+" THEN 43
    ELSE IF c = "," THEN 44
    ELSE IF c = "-" THEN 45
    ELSE IF c = "." THEN 46
    ELSE IF c = "/" THEN 47
    ELSE IF c = ":" THEN 58
    ELSE IF c = "_" THEN 95
    ELSE 226

LowerChar(c) == IF IndexIn(Uppers, c) > 0 THEN Lowers[IndexIn(Uppers, c)] ELSE c

UpperChar(c) == IF IndexIn(Lowers, c) > 0 THEN Uppers[IndexIn(Lowers, c)] ELSE c

ToLower(s) == [i \in 1..Len(s) |-> LowerChar(s[i])]

ToUpper(s) == [i \in 1..Len(s) |-> UpperChar(s[i])]

HasPrefix(s, p) == Len(s) >= Len(p) /\ SubSeq(s, 1, Len(p)) = p

\* s with its first n characters removed.
Drop(s, n) == SubSeq(s, n + 1, Len(s))

RECURSIVE TrimLeft(_)
TrimLeft(s) == IF s # <<>> /\ Head(s) = " " THEN TrimLeft(Tail(s)) ELSE s

RECURSIVE TrimRight(_)
TrimRight(s) ==
    IF s # <<>> /\ s[Len(s)] = " " THEN TrimRight(SubSeq(s, 1, Len(s) - 1)) ELSE s

TrimSpace(s) == TrimRight(TrimLeft(s))

\* strings.Contains
Contains(s, p) == \E i \in 0..(Len(s) - Len(p)) : SubSeq(s, i + 1, i + Len(p)) = p

\* strings.ReplaceAll for a non-empty old: leftmost, non-overlapping.
RECURSIVE ReplaceAll(_, _, _)
ReplaceAll(s, old, new) ==
    IF s = <<>> THEN <<>>
    ELSE IF HasPrefix(s, old) THEN new \o ReplaceAll(Drop(s, Len(old)), old, new)
    ELSE <<Head(s)>> \o ReplaceAll(Tail(s), old, new)

\* strings.Split on a one-character separator: always at least one part.
RECURSIVE Split(_, _)
Split(s, sep) ==
    IF \E i \in 1..Len(s) : s[i] = sep
    THEN LET k == CHOOSE i \in 1..Len(s) : s[i] = sep /\ \A j \in 1..(i - 1) : s[j] # sep
         IN  <<SubSeq(s, 1, k - 1)>> \o Split(Drop(s, k), sep)
    ELSE <<s>>

AllDigits(s) == \A i \in 1..Len(s) : IsDigit(s[i])

RECURSIVE DigitsVal(_)
DigitsVal(s) ==
    IF s = <<>> THEN 0 ELSE 10 * DigitsVal(SubSeq(s, 1, Len(s) - 1)) + DigitVal(s[Len(s)])

\* strconv.Atoi: an optional sign and at least one digit, nothing else.
AtoiOk(s) ==
    LET body == IF s # <<>> /\ Head(s) \in {"+", "-"} THEN Tail(s) ELSE s
    IN  body # <<>> /\ AllDigits(body)

Atoi(s) ==
    IF s # <<>> /\ Head(s) = "-" THEN 0 - DigitsVal(Tail(s))
    ELSE IF s # <<>> /\ Head(s) = "+" THEN DigitsVal(Tail(s))
    ELSE DigitsVal(s)

\* Byte-wise lexicographic order, the order sort.Strings uses.
RECURSIVE StrLess(_, _)
StrLess(a, b) ==
    IF b = <<>> THEN FALSE
    ELSE IF a = <<>> THEN TRUE
    ELSE IF ByteOf(Head(a)) # ByteOf(Head(b)) THEN ByteOf(Head(a)) < ByteOf(Head(b))
    ELSE StrLess(Tail(a), Tail(b))

\* Number of leading characters of s that are decimal digits.
RECURSIVE SpanDigits(_)
SpanDigits(s) == IF s # <<>> /\ IsDigit(Head(s)) THEN 1 + SpanDigits(Tail(s)) ELSE 0

\* Number of leading characters of s that are spaces (regexp \s*).
RECURSIVE SpanSpaces(_)
SpanSpaces(s) == IF s # <<>> /\ Head(s) = " " THEN 1 + SpanSpaces(Tail(s)) ELSE 0

RECURSIVE Pow10(_)
Pow10(n) == IF n = 0 THEN 1 ELSE 10 * Pow10(n - 1)

(***************************************************************************)
(* Calendar arithmetic (Go package time)                                   *)
(***************************************************************************)

SecondsPerMinute == 60

SecondsPerHour == 3600

SecondsPerDay == 86400

IsLeap(y) == y % 4 = 0 /\ (y % 100 # 0 \/ y % 400 = 0)

\* time.daysIn
DaysIn(m, y) ==
    IF m = 2 THEN (IF IsLeap(y) THEN 29 ELSE 28)
    ELSE IF m \in {4, 6, 9, 11} THEN 30
    ELSE 31

\* Days from 1970-01-01 to the civil date y-m-d (proleptic Gregorian).
DaysFromCivil(y, m, d) ==
    LET yy  == IF m <= 2 THEN y - 1 ELSE y
        era == yy \div 400
        yoe == yy - era * 400
        mp  == IF m > 2 THEN m - 3 ELSE m + 9
        doy == (153 * mp + 2) \div 5 + d - 1
        doe == yoe * 365 + yoe \div 4 - yoe \div 100 + doy
    IN  era * 146097 + doe - 719468

\* Day number 0 of the model's instants.
EpochDay == DaysFromCivil(2020, 1, 1)

\* time.Date(y, m, d, hour, minute, sec, 0, loc): out-of-range hour and
\* minute values are normalized by carrying into the day.
DateOf(y, m, d, hour, minute, sec) ==
    (DaysFromCivil(y, m, d) - EpochDay) * SecondsPerDay
        + hour * SecondsPerHour + minute * SecondsPerMinute + sec

\* Calendar day (number of days from the epoch) an instant falls on.
DayOf(t) == t \div SecondsPerDay

\* Wall-clock second of the day of an instant.
SecOfDay(t) == t % SecondsPerDay

\* t.AddDate(0, 0, n): same wall-clock time n calendar days later.
AddDays(t, n) == t + n * SecondsPerDay

\* t.Before(u)
Before(t, u) == t < u

(***************************************************************************)
(* TimeParser.ParseDate                                                    *)
(***************************************************************************)

LongMonthNames ==
    << <<"j","a","n","u","a","r","y">>, <<"f","e","b","r","u","a","r","y">>,
       <<"m","a","r","c","h">>, <<"a","p","r","i","l">>, <<"m","a","y">>,
       <<"j","u","n","e">>, <<"j","u","l","y">>, <<"a","u","g","u","s","t">>,
       <<"s","e","p","t","e","m","b","e","r">>, <<"o","c","t","o","b","e","r">>,
       <<"n","o","v","e","m","b","e","r">>, <<"d","e","c","e","m","b","e","r">> >>

ShortMonthNames == [i \in 1..12 |-> SubSeq(LongMonthNames[i], 1, 3)]

\* A layout is the sequence of chunks time.Parse cuts it into: a standard
\* field ("2006", "01", "02", "2", "January", "Jan") or literal text.
Std(f) == [std |-> f]

Lit(t) == [lit |-> t]

LayoutISO == <<Std("2006"), Lit(<<"-">>), Std("01"), Lit(<<"-">>), Std("02")>>

LayoutUS == <<Std("01"), Lit(<<"/">>), Std("02"), Lit(<<"/">>), Std("2006")>>

\* The third layout reading the month before the day.
LayoutEU_MonthFirst == <<Std("01"), Lit(<<"-">>), Std("02"), Lit(<<"-">>), Std("2006")>>

LayoutEU == <<Std("02"), Lit(<<"-">>), Std("01"), Lit(<<"-">>), Std("2006")>>

LayoutLong == <<Std("January"), Lit(<<" ">>), Std("2"), Lit(<<",", " ">>), Std("2006")>>

LayoutShort == <<Std("Jan"), Lit(<<" ">>), Std("2"), Lit(<<",", " ">>), Std("2006")>>

LayoutAltISO == <<Std("2006"), Lit(<<"/">>), Std("01"), Lit(<<"/">>), Std("02")>>

\* The formats slice of ParseDate, in its order.
DateFormats == <<LayoutISO, LayoutUS, LayoutEU, LayoutLong, LayoutShort, LayoutAltISO>>

\* time.skip: literal layout text must be next in the value; a space of the
\* layout stands for any run of spaces (or the end of the value).
RECURSIVE Skip(_, _)
Skip(value, prefix) ==
    IF prefix = <<>> THEN [ok |-> TRUE, rest |-> value]
    ELSE IF Head(prefix) = " "
         THEN IF value # <<>> /\ Head(value) # " " THEN [ok |-> FALSE]
              ELSE Skip(TrimLeft(value), TrimLeft(prefix))
    ELSE IF value = <<>> \/ Head(value) # Head(prefix) THEN [ok |-> FALSE]
    ELSE Skip(Tail(value), Tail(prefix))

\* time.getnum: one or two digits, exactly two when fixed.
GetNum(value, fixed) ==
    IF value = <<>> \/ ~IsDigit(value[1]) THEN [ok |-> FALSE]
    ELSE IF Len(value) < 2 \/ ~IsDigit(value[2])
         THEN IF fixed THEN [ok |-> FALSE]
              ELSE [ok |-> TRUE, n |-> DigitVal(value[1]), rest |-> Tail(value)]
    ELSE [ok |-> TRUE, n |-> DigitsVal(SubSeq(value, 1, 2)), rest |-> Drop(value, 2)]

\* time.lookup: case-insensitive match of a table entry at the value's start.
Lookup(tab, value) ==
    LET hit(i) == HasPrefix(ToLower(value), tab[i])
    IN  IF \E i \in 1..Len(tab) : hit(i)
        THEN LET k == CHOOSE i \in 1..Len(tab) : hit(i) /\ \A j \in 1..(i - 1) : ~hit(j)
             IN  [ok |-> TRUE, n |-> k, rest |-> Drop(value, Len(tab[k]))]
        ELSE [ok |-> FALSE]

\* One standard field of a layout read from the front of the value.
ParseStd(f, value) ==
    LET month(r) == IF r.ok /\ (r.n <= 0 \/ 12 < r.n) THEN [ok |-> FALSE] ELSE r
    IN  IF f = "2006"
        THEN IF Len(value) < 4 \/ ~AllDigits(SubSeq(value, 1, 4)) THEN [ok |-> FALSE]
             ELSE [ok |-> TRUE, n |-> DigitsVal(SubSeq(value, 1, 4)), rest |-> Drop(value, 4)]
        ELSE IF f = "01" THEN month(GetNum(value, TRUE))
        ELSE IF f = "02" THEN GetNum(value, TRUE)
        ELSE IF f = "2" THEN GetNum(value, FALSE)
        ELSE IF f = "January" THEN Lookup(LongMonthNames, value)
        ELSE Lookup(ShortMonthNames, value)

\* time.Parse of the chunks of one layout, collecting year, month and day.
RECURSIVE ParseChunks(_, _, _)
ParseChunks(layout, value, acc) ==
    LET c == Head(layout)
        literal(r) ==
            IF r.ok THEN ParseChunks(Tail(layout), r.rest, acc) ELSE [ok |-> FALSE]
        field(r) ==
            IF ~r.ok THEN [ok |-> FALSE]
            ELSE ParseChunks(Tail(layout), r.rest,
                     IF c.std = "2006" THEN [acc EXCEPT !.y = r.n]
                     ELSE IF c.std \in {"01", "January", "Jan"} THEN [acc EXCEPT !.m = r.n]
                     ELSE [acc EXCEPT !.d = r.n])
    IN  IF layout = <<>>
        THEN IF value # <<>> THEN [ok |-> FALSE]
             ELSE IF acc.d < 1 \/ acc.d > DaysIn(acc.m, acc.y) THEN [ok |-> FALSE]
             ELSE [ok |-> TRUE, y |-> acc.y, m |-> acc.m, d |-> acc.d]
        ELSE IF "lit" \in DOMAIN c THEN literal(Skip(value, c.lit))
        ELSE field(ParseStd(c.std, value))

\* time.ParseInLocation(layout, value, loc)
ParseInLocation(layout, value) == ParseChunks(layout, value, [y |-> 0, m |-> 1, d |-> 1])

\* The first layout of formats, from position i on, that parses the text.
RECURSIVE FirstFormat(_, _, _)
FirstFormat(formats, i, dateStr) ==
    LET tried(r) ==
            IF r.ok THEN [ok |-> TRUE, v |-> DateOf(r.y, r.m, r.d, 0, 0, 0), layout |-> i]
            ELSE FirstFormat(formats, i + 1, dateStr)
    IN  IF i > Len(formats) THEN [ok |-> FALSE]
        ELSE tried(ParseInLocation(formats[i], dateStr))

ParseDate(dateStr) == FirstFormat(DateFormats, 1, TrimSpace(dateStr))

(***************************************************************************)
(* TimeParser.ParseTime, ParseTimeRange, CombineDateTime                   *)
(***************************************************************************)

Noon == 12

\* The conversion without the case of 12 am.
ClockHour_KeepsTwelve(hour, isPM, isAM) ==
    IF isPM /\ hour < Noon THEN hour + Noon ELSE hour

\* Convert 12h to 24h format.
ClockHour(hour, isPM, isAM) ==
    IF isPM /\ hour < Noon THEN hour + Noon
    ELSE IF isAM /\ hour = Noon THEN 0
    ELSE hour

ParseTime(timeStr) ==
    LET clock(isPM, isAM, parts) ==
            IF Len(parts) < 2 THEN [ok |-> FALSE]
            ELSE IF ~AtoiOk(parts[1]) THEN [ok |-> FALSE]
            ELSE IF ~AtoiOk(parts[2]) THEN [ok |-> FALSE]
            ELSE [ok |-> TRUE,
                  hour |-> ClockHour(Atoi(parts[1]), isPM, isAM),
                  minute |-> Atoi(parts[2])]
        cleaned(s) ==
            clock(Contains(s, <<"p","m">>), Contains(s, <<"a","m">>),
                  Split(ReplaceAll(ReplaceAll(s, <<"p","m">>, <<>>), <<"a","m">>, <<>>), ":"))
    IN  cleaned(ReplaceAll(ReplaceAll(ToLower(TrimSpace(timeStr)), <<".">>, <<>>), <<" ">>, <<>>))

\* The characters U+2013 and U+2014, each one character of the text.
EnDash == "U+2013"

EmDash == "U+2014"

ParseTimeRange(rangeStr) ==
    LET times(a, b) ==
            IF ~a.ok THEN [ok |-> FALSE]
            ELSE IF ~b.ok THEN [ok |-> FALSE]
            ELSE [ok |-> TRUE, startHour |-> a.hour, startMin |-> a.minute,
                  endHour |-> b.hour, endMin |-> b.minute]
        halves(parts) ==
            IF Len(parts) # 2 THEN [ok |-> FALSE]
            ELSE times(ParseTime(parts[1]), ParseTime(parts[2]))
    IN  halves(Split(ReplaceAll(ReplaceAll(ReplaceAll(ReplaceAll(rangeStr,
                   <<EnDash>>, <<"-">>), <<EmDash>>, <<"-">>),
                   <<"t","o">>, <<"-">>), <<"T","O">>, <<"-">>), "-"))

\* date.Year(), date.Month(), date.Day() at the given wall-clock time.
CombineDateTime(date, hour, minute) ==
    DayOf(date) * SecondsPerDay + hour * SecondsPerHour + minute * SecondsPerMinute

ParseDateTimeRange(dateStr, timeRangeStr) ==
    LET span(start, end) ==
            [ok |-> TRUE, start |-> start,
             end |-> IF Before(end, start) THEN AddDays(end, 1) ELSE end]
        combine(date, r) ==
            IF ~date.ok THEN [ok |-> FALSE]
            ELSE IF ~r.ok THEN [ok |-> FALSE]
            ELSE span(CombineDateTime(date.v, r.startHour, r.startMin),
                      CombineDateTime(date.v, r.endHour, r.endMin))
    IN  combine(ParseDate(dateStr), ParseTimeRange(timeRangeStr))

(***************************************************************************)
(* TimeParser.ParseDuration.  Durations are whole seconds; the texts of    *)
(* the model use the units h, m and s only.                                *)
(***************************************************************************)

\* time.unitMap, in seconds; 0 for a unit it does not have.
UnitSeconds(u) ==
    IF u = <<"h">> THEN SecondsPerHour
    ELSE IF u = <<"m">> THEN SecondsPerMinute
    ELSE IF u = <<"s">> THEN 1
    ELSE 0

\* Length of the unit at the front of s: up to the next digit or period.
RECURSIVE SpanUnit(_)
SpanUnit(s) ==
    IF s # <<>> /\ Head(s) # "." /\ ~IsDigit(Head(s)) THEN 1 + SpanUnit(Tail(s)) ELSE 0

\* The loop of time.ParseDuration over (number, unit) groups.
RECURSIVE DurationGroups(_, _)
DurationGroups(s, acc) ==
    LET ni == SpanDigits(s)
        v  == DigitsVal(SubSeq(s, 1, ni))
        fraction(hasDot, s2) ==
            LET nf == IF hasDot THEN SpanDigits(s2) ELSE 0
                f  == DigitsVal(SubSeq(s2, 1, nf))
                unitAt(s3, nu) ==
                    LET unit == UnitSeconds(SubSeq(s3, 1, nu))
                    IN  IF ni = 0 /\ nf = 0 THEN [ok |-> FALSE]
                        ELSE IF nu = 0 THEN [ok |-> FALSE]
                        ELSE IF unit = 0 THEN [ok |-> FALSE]
                        ELSE DurationGroups(Drop(s3, nu),
                                 acc + v * unit + (f * unit) \div Pow10(nf))
                unitOf(s3) == unitAt(s3, SpanUnit(s3))
            IN  unitOf(Drop(s2, nf))
        period(s1, hasDot) == fraction(hasDot, IF hasDot THEN Tail(s1) ELSE s1)
        integer(s1) == period(s1, s1 # <<>> /\ Head(s1) = ".")
    IN  IF s = <<>> THEN [ok |-> TRUE, v |-> acc]
        ELSE IF ~(Head(s) = "." \/ IsDigit(Head(s))) THEN [ok |-> FALSE]
        ELSE integer(Drop(s, ni))

\* time.ParseDuration
GoParseDuration(str) ==
    LET signed == str # <<>> /\ Head(str) \in {"+", "-"}
        neg    == signed /\ Head(str) = "-"
        groups(r) ==
            IF ~r.ok THEN r ELSE [ok |-> TRUE, v |-> IF neg THEN 0 - r.v ELSE r.v]
        unsigned(s) ==
            IF s = <<"0">> THEN [ok |-> TRUE, v |-> 0]
            ELSE IF s = <<>> THEN [ok |-> FALSE]
            ELSE groups(DurationGroups(s, 0))
    IN  unsigned(IF signed THEN Tail(str) ELSE str)

\* The six ReplaceAll calls of ParseDuration, in their order.
NormalizeUnits(s) ==
    LET a == ReplaceAll(s, <<"h","r">>, <<"h">>)
        b == ReplaceAll(a, <<"h","o","u","r">>, <<"h">>)
        c == ReplaceAll(b, <<"h","o","u","r","s">>, <<"h">>)
        d == ReplaceAll(c, <<"m","i","n">>, <<"m">>)
        e == ReplaceAll(d, <<"m","i","n","u","t","e">>, <<"m">>)
    IN  ReplaceAll(e, <<"m","i","n","u","t","e","s">>, <<"m">>)

\* \s* of the pattern: the text after its leading spaces.
SkipSpaces(s) == Drop(s, SpanSpaces(s))

\* First alternative of the pattern, (\d+)\s*h(?:ours?)?\s*(?:(\d+)\s*m)?,
\* matched at the front of s.
MatchHours(s) ==
    LET nd == SpanDigits(s)
        minutes(g, nm) ==
            [ok |-> TRUE, m1 |-> SubSeq(s, 1, nd),
             m2 |-> LET k == SkipSpaces(Drop(g, nm))
                    IN  IF nm > 0 /\ k # <<>> /\ Head(k) = "m"
                        THEN SubSeq(g, 1, nm) ELSE <<>>,
             m3 |-> <<>>]
        spaces(g) == minutes(g, SpanDigits(g))
        word(c) ==
            spaces(SkipSpaces(IF HasPrefix(c, <<"o","u","r","s">>) THEN Drop(c, 4)
                              ELSE IF HasPrefix(c, <<"o","u","r">>) THEN Drop(c, 3)
                              ELSE c))
        hours(b) ==
            IF nd = 0 \/ b = <<>> \/ Head(b) # "h" THEN [ok |-> FALSE]
            ELSE word(Tail(b))
    IN  hours(SkipSpaces(Drop(s, nd)))

\* Second alternative, (\d+)\s*m(?:in(?:utes?)?)?, matched at the front of s.
MatchMinutes(s) ==
    LET nd == SpanDigits(s)
        minutes(b) ==
            IF nd = 0 \/ b = <<>> \/ Head(b) # "m" THEN [ok |-> FALSE]
            ELSE [ok |-> TRUE, m1 |-> <<>>, m2 |-> <<>>, m3 |-> SubSeq(s, 1, nd)]
    IN  minutes(SkipSpaces(Drop(s, nd)))

\* re.FindStringSubmatch: the leftmost match, the first alternative preferred.
RECURSIVE FindStringSubmatch(_)
FindStringSubmatch(s) ==
    LET at(hours, minutes) ==
            IF hours.ok THEN hours
            ELSE IF minutes.ok THEN minutes
            ELSE IF s = <<>> THEN [ok |-> FALSE]
            ELSE FindStringSubmatch(Tail(s))
    IN  at(MatchHours(s), MatchMinutes(s))

ParseDuration(durationStr) ==
    LET matched(mt) ==
            IF mt.ok
            THEN LET hours == IF mt.m1 # <<>> THEN Atoi(mt.m1) ELSE 0
                     mins2 == IF mt.m2 # <<>> THEN Atoi(mt.m2) ELSE 0
                     mins  == IF mt.m3 # <<>> THEN Atoi(mt.m3) ELSE mins2
                 IN  [ok |-> TRUE, v |-> hours * SecondsPerHour + mins * SecondsPerMinute]
            ELSE [ok |-> FALSE]
        normalized(s2, r2) == IF r2.ok THEN r2 ELSE matched(FindStringSubmatch(s2))
        second(s2) == normalized(s2, GoParseDuration(s2))
        first(s1, r1) == IF r1.ok THEN r1 ELSE second(NormalizeUnits(s1))
        cleaned(s1) == first(s1, GoParseDuration(s1))
    IN  cleaned(TrimSpace(ToLower(durationStr)))

(***************************************************************************)
(* JSON documents.  A JSON value is a string, an array, a number or null;  *)
(* a JSON object is a function from its keys to its fields.  The top-level *)
(* object has text keys; the objects inside arrays are the records of the  *)
(* dialects, with the field names of the Go struct tags.                   *)
(***************************************************************************)

JStr(s) == [t |-> "string", s |-> s]

JArr(a) == [t |-> "array", a |-> a]

JNum == [t |-> "number"]

JNull == [t |-> "null"]

\* A document: valid is FALSE when the bytes are not a JSON object at all,
\* raw is the top-level object as json.Unmarshal gives it (a map).
Doc(raw) == [valid |-> TRUE, raw |-> raw]

BadJSON == [valid |-> FALSE, raw |-> <<>>]

IsObject(e) == "t" \notin DOMAIN e

\* The value of a field of a decoded struct: the zero value when omitted.
Field(r, f, zero) == IF f \in DOMAIN r THEN r[f] ELSE zero

KeyFormat == <<"f","o","r","m","a","t">>

KeyEvents == <<"e","v","e","n","t","s">>

(***************************************************************************)
(* TemplateFormat and Parser.detectFormat                                  *)
(***************************************************************************)

FormatWeekly == <<"w","e","e","k","l","y">>

FormatSingle == <<"s","i","n","g","l","e">>

FormatRecurring == <<"r","e","c","u","r","r","i","n","g">>

FormatDateRange == <<"d","a","t","e","r","a","n","g","e">>

FormatAuto == <<"a","u","t","o">>

\* The condition of the key loop of detectFormat.
IsWeekKey(key) ==
    \/ HasPrefix(ToLower(key), <<"w","e","e","k","_">>)
    \/ HasPrefix(ToLower(key), <<"w","e","e","k"," ">>)
    \/ ToLower(key) = <<"w","e","e","k","1">>

\* for key := range raw, visiting the keys in the order given: TRUE when
\* the loop returns FormatWeekly.
RECURSIVE WeekKeyLoop(_)
WeekKeyLoop(order) ==
    IF order = <<>> THEN FALSE
    ELSE IF IsWeekKey(Head(order)) THEN TRUE
    ELSE WeekKeyLoop(Tail(order))

\* json.Unmarshal(formatRaw, &format) succeeds for a string and for null.
FormatFieldDecodes(raw) == KeyFormat \in DOMAIN raw /\ raw[KeyFormat].t \in {"string", "null"}

FormatFieldText(raw) == IF raw[KeyFormat].t = "string" THEN raw[KeyFormat].s ELSE <<>>

\* json.Unmarshal(eventsRaw, &events) into []map[string]json.RawMessage
\* succeeded and len(events) > 0.
HasFirstEvent(raw) ==
    /\ KeyEvents \in DOMAIN raw
    /\ raw[KeyEvents].t = "array"
    /\ \A i \in 1..Len(raw[KeyEvents].a) : IsObject(raw[KeyEvents].a[i])
    /\ Len(raw[KeyEvents].a) > 0

\* The detector with the key heuristic ahead of the format field.
detectFormat_WeekKeysFirst(data, order) ==
    IF ~data.valid THEN FormatSingle
    ELSE IF WeekKeyLoop(order) THEN FormatWeekly
    ELSE IF FormatFieldDecodes(data.raw) THEN ToLower(FormatFieldText(data.raw))
    ELSE IF HasFirstEvent(data.raw) /\ "recurrence" \in DOMAIN data.raw[KeyEvents].a[1]
         THEN FormatRecurring
    ELSE IF HasFirstEvent(data.raw) /\ "end_date" \in DOMAIN data.raw[KeyEvents].a[1]
         THEN FormatDateRange
    ELSE FormatSingle

detectFormat(data, order) ==
    IF ~data.valid THEN FormatSingle
    ELSE IF FormatFieldDecodes(data.raw) THEN ToLower(FormatFieldText(data.raw))
    ELSE IF WeekKeyLoop(order) THEN FormatWeekly
    ELSE IF HasFirstEvent(data.raw) /\ "recurrence" \in DOMAIN data.raw[KeyEvents].a[1]
         THEN FormatRecurring
    ELSE IF HasFirstEvent(data.raw) /\ "end_date" \in DOMAIN data.raw[KeyEvents].a[1]
         THEN FormatDateRange
    ELSE FormatSingle

(***************************************************************************)
(* Canonical events and conversion results                                 *)
(***************************************************************************)

\* The Recurrence field pointing at an empty rule.
NoRecurrence_EmptyRule ==
    [Frequency |-> <<>>, Interval |-> 0, Until |-> [none |-> TRUE], Count |-> 0,
     ByDay |-> <<>>, ExcludeWeekends |-> FALSE]

NoRecurrence == [none |-> TRUE]

CalendarEvent(name, description, startTime, endTime, location, links, allDay, recurrence, colorID) ==
    [Name |-> name, Description |-> description, StartTime |-> startTime,
     EndTime |-> endTime, Location |-> location, Links |-> links,
     AllDay |-> allDay, Recurrence |-> recurrence, ColorID |-> colorID]

Converted(e) == [ok |-> TRUE, event |-> e]

ConvertError(why) == [ok |-> FALSE, why |-> why]

\* What a parse function returns: the events and the error ("nil" for none).
Parsed(events) == [events |-> events, err |-> "nil"]

ParseError(err) == [events |-> <<>>, err |-> err]

\* json.Unmarshal of the document into one of the template structs
\* {Format string; Events []T}: the events, or a failure.
DecodeTemplate(data) ==
    IF ~data.valid THEN [ok |-> FALSE]
    ELSE IF KeyFormat \in DOMAIN data.raw /\ data.raw[KeyFormat].t \notin {"string", "null"}
         THEN [ok |-> FALSE]
    ELSE IF KeyEvents \notin DOMAIN data.raw \/ data.raw[KeyEvents].t = "null"
         THEN [ok |-> TRUE, Events |-> <<>>]
    ELSE IF data.raw[KeyEvents].t # "array" THEN [ok |-> FALSE]
    ELSE IF \E i \in 1..Len(data.raw[KeyEvents].a) : ~IsObject(data.raw[KeyEvents].a[i])
         THEN [ok |-> FALSE]
    ELSE [ok |-> TRUE, Events |-> data.raw[KeyEvents].a]

(***************************************************************************)
(* Single dialect: convertSingleEvent, parseSingle                         *)
(***************************************************************************)

\* Handle overnight events: an end before the start moves to the next day.
SingleOvernight_Never(endTime, startTime) == endTime

SingleOvernight(endTime, startTime) ==
    IF Before(endTime, startTime) THEN AddDays(endTime, 1) ELSE endTime

\* The conversion consulting duration before end_time.
convertSingleEvent_DurationFirst(se) ==
    LET allDay == Field(se, "all_day", FALSE)
        event(st, et) ==
            Converted(CalendarEvent(Field(se, "name", ""), Field(se, "description", <<>>),
                          st, et, Field(se, "location", <<>>), Field(se, "links", <<>>),
                          allDay, NoRecurrence, Field(se, "color_id", <<>>)))
        ended(date, startTime, end) ==
            IF ~end.ok THEN ConvertError("failed to parse end time")
            ELSE event(startTime,
                       SingleOvernight(CombineDateTime(date, end.hour, end.minute), startTime))
        lasting(startTime, duration) ==
            IF ~duration.ok THEN ConvertError("failed to parse duration")
            ELSE event(startTime, startTime + duration.v)
        started(date, startTime) ==
            IF Field(se, "duration", <<>>) # <<>>
            THEN lasting(startTime, ParseDuration(Field(se, "duration", <<>>)))
            ELSE IF Field(se, "end_time", <<>>) # <<>>
            THEN ended(date, startTime, ParseTime(Field(se, "end_time", <<>>)))
            ELSE event(startTime, startTime + SecondsPerHour)
        timed(date, start) ==
            IF ~start.ok THEN ConvertError("failed to parse start time")
            ELSE started(date, CombineDateTime(date, start.hour, start.minute))
        dated(date) ==
            IF ~date.ok THEN ConvertError("failed to parse date")
            ELSE IF ~allDay THEN timed(date.v, ParseTime(Field(se, "start_time", <<>>)))
            ELSE event(date.v, AddDays(date.v, 1))
    IN  dated(ParseDate(Field(se, "date", <<>>)))

convertSingleEvent(se) ==
    LET allDay == Field(se, "all_day", FALSE)
        event(st, et) ==
            Converted(CalendarEvent(Field(se, "name", ""), Field(se, "description", <<>>),
                          st, et, Field(se, "location", <<>>), Field(se, "links", <<>>),
                          allDay, NoRecurrence, Field(se, "color_id", <<>>)))
        ended(date, startTime, end) ==
            IF ~end.ok THEN ConvertError("failed to parse end time")
            ELSE event(startTime,
                       SingleOvernight(CombineDateTime(date, end.hour, end.minute), startTime))
        lasting(startTime, duration) ==
            IF ~duration.ok THEN ConvertError("failed to parse duration")
            ELSE event(startTime, startTime + duration.v)
        started(date, startTime) ==
            IF Field(se, "end_time", <<>>) # <<>>
            THEN ended(date, startTime, ParseTime(Field(se, "end_time", <<>>)))
            ELSE IF Field(se, "duration", <<>>) # <<>>
            THEN lasting(startTime, ParseDuration(Field(se, "duration", <<>>)))
            ELSE event(startTime, startTime + SecondsPerHour)
        timed(date, start) ==
            IF ~start.ok THEN ConvertError("failed to parse start time")
            ELSE started(date, CombineDateTime(date, start.hour, start.minute))
        dated(date) ==
            IF ~date.ok THEN ConvertError("failed to parse date")
            ELSE IF ~allDay THEN timed(date.v, ParseTime(Field(se, "start_time", <<>>)))
            ELSE event(date.v, AddDays(date.v, 1))
    IN  dated(ParseDate(Field(se, "date", <<>>)))

\* The loop, returning the events converted so far when a record fails.
RECURSIVE SingleLoop_KeepsPartial(_, _, _)
SingleLoop_KeepsPartial(records, i, events) ==
    LET converted(r) ==
            IF ~r.ok THEN [events |-> events, err |-> "failed to convert event"]
            ELSE SingleLoop_KeepsPartial(records, i + 1, Append(events, r.event))
    IN  IF i > Len(records) THEN Parsed(events)
        ELSE converted(convertSingleEvent(records[i]))

\* The loop, putting each event in front of the earlier ones.
RECURSIVE SingleLoop_Prepends(_, _, _)
SingleLoop_Prepends(records, i, events) ==
    LET converted(r) ==
            IF ~r.ok THEN ParseError("failed to convert event")
            ELSE SingleLoop_Prepends(records, i + 1, <<r.event>> \o events)
    IN  IF i > Len(records) THEN Parsed(events)
        ELSE converted(convertSingleEvent(records[i]))

\* The loop of parseSingle from record i on, events holding the results so far.
RECURSIVE SingleLoop(_, _, _)
SingleLoop(records, i, events) ==
    LET converted(r) ==
            IF ~r.ok THEN ParseError("failed to convert event")
            ELSE SingleLoop(records, i + 1, Append(events, r.event))
    IN  IF i > Len(records) THEN Parsed(events)
        ELSE converted(convertSingleEvent(records[i]))

parseSingle(data) ==
    LET template == DecodeTemplate(data)
    IN  IF ~template.ok THEN ParseError("failed to parse JSON")
        ELSE SingleLoop(template.Events, 1, <<>>)

(***************************************************************************)
(* Recurring dialect: normalizeDay, convertRecurrenceRule,                 *)
(* convertRecurringEvent, parseRecurring                                   *)
(***************************************************************************)

DayMO == <<"M","O">>

DayTU == <<"T","U">>

DayWE == <<"W","E">>

DayTH == <<"T","H">>

DayFR == <<"F","R">>

DaySA == <<"S","A">>

DaySU == <<"S","U">>

\* The keys of dayMap with their values.
DayMap ==
    << [k |-> <<"M","O","N","D","A","Y">>,             v |-> DayMO],
       [k |-> <<"T","U","E","S","D","A","Y">>,         v |-> DayTU],
       [k |-> <<"W","E","D","N","E","S","D","A","Y">>, v |-> DayWE],
       [k |-> <<"T","H","U","R","S","D","A","Y">>,     v |-> DayTH],
       [k |-> <<"F","R","I","D","A","Y">>,             v |-> DayFR],
       [k |-> <<"S","A","T","U","R","D","A","Y">>,     v |-> DaySA],
       [k |-> <<"S","U","N","D","A","Y">>,             v |-> DaySU],
       [k |-> <<"M","O","N">>, v |-> DayMO],
       [k |-> <<"T","U","E">>, v |-> DayTU],
       [k |-> <<"W","E","D">>, v |-> DayWE],
       [k |-> <<"T","H","U">>, v |-> DayTH],
       [k |-> <<"F","R","I">>, v |-> DayFR],
       [k |-> <<"S","A","T">>, v |-> DaySA],
       [k |-> <<"S","U","N">>, v |-> DaySU] >>

normalizeDay(day) ==
    LET d == ToUpper(TrimSpace(day))
    IN  IF \E i \in 1..Len(DayMap) : DayMap[i].k = d
        THEN DayMap[CHOOSE i \in 1..Len(DayMap) : DayMap[i].k = d].v
        ELSE d

\* for i, day := range ri.ByDay { rule.ByDay = append(rule.ByDay, normalizeDay(day)) }
RECURSIVE NormalizeDays(_, _)
NormalizeDays(byDay, acc) ==
    IF byDay = <<>> THEN acc
    ELSE NormalizeDays(Tail(byDay), Append(acc, normalizeDay(Head(byDay))))

Weekdays == <<DayMO, DayTU, DayWE, DayTH, DayFR>>

\* validFrequencies with an HOURLY entry.
ValidFrequencies_WithHourly ==
    { <<"D","A","I","L","Y">>, <<"W","E","E","K","L","Y">>,
      <<"M","O","N","T","H","L","Y">>, <<"Y","E","A","R","L","Y">>,
      <<"H","O","U","R","L","Y">> }

ValidFrequencies ==
    { <<"D","A","I","L","Y">>, <<"W","E","E","K","L","Y">>,
      <<"M","O","N","T","H","L","Y">>, <<"Y","E","A","R","L","Y">> }

NoUntil == [none |-> TRUE]

\* Handle exclude_weekends by setting ByDay.
ExpandWeekdays_Always(excludeWeekends, byDay) == IF excludeWeekends THEN Weekdays ELSE byDay

ExpandWeekdays(excludeWeekends, byDay) ==
    IF excludeWeekends /\ Len(byDay) = 0 THEN Weekdays ELSE byDay

convertRecurrenceRule(ri) ==
    LET frequency == ToUpper(Field(ri, "frequency", <<>>))
        interval  == Field(ri, "interval", 0)
        untilStr  == Field(ri, "until", <<>>)
        excl      == Field(ri, "exclude_weekends", FALSE)
        rule(until) ==
            IF untilStr # <<>> /\ ~until.ok THEN [ok |-> FALSE]
            ELSE [ok |-> TRUE,
                  rule |-> [Frequency       |-> frequency,
                            Interval        |-> IF interval = 0 THEN 1 ELSE interval,
                            Until           |-> IF untilStr # <<>>
                                                THEN [t |-> DayOf(until.v) * SecondsPerDay
                                                         + 23 * SecondsPerHour
                                                         + 59 * SecondsPerMinute + 59]
                                                ELSE NoUntil,
                            Count           |-> Field(ri, "count", 0),
                            ByDay           |-> ExpandWeekdays(excl,
                                                    NormalizeDays(Field(ri, "by_day", <<>>), <<>>)),
                            ExcludeWeekends |-> excl]]
    IN  IF frequency \notin ValidFrequencies THEN [ok |-> FALSE]
        ELSE rule(ParseDate(untilStr))

\* now is the instant time.Now() returns, in the parser's location.
convertRecurringEvent(re, now) ==
    LET dateStr == Field(re, "start_date", <<>>)
        ruled(startTime, et, recurrence) ==
            IF ~recurrence.ok THEN ConvertError("failed to parse recurrence rule")
            ELSE Converted(CalendarEvent(Field(re, "name", ""), Field(re, "description", <<>>),
                               startTime, et, Field(re, "location", <<>>),
                               Field(re, "links", <<>>), FALSE, recurrence.rule,
                               Field(re, "color_id", <<>>)))
        event(startTime, et) ==
            ruled(startTime, et, convertRecurrenceRule(Field(re, "recurrence", <<>>)))
        overnight(startTime, endOnDate) ==
            event(startTime,
                  IF Before(endOnDate, startTime) THEN AddDays(endOnDate, 1) ELSE endOnDate)
        ended(startDate, startTime, end) ==
            IF ~end.ok THEN ConvertError("failed to parse end time")
            ELSE overnight(startTime, CombineDateTime(startDate, end.hour, end.minute))
        lasting(startTime, duration) ==
            IF ~duration.ok THEN ConvertError("failed to parse duration")
            ELSE event(startTime, startTime + duration.v)
        started(startDate, startTime) ==
            IF Field(re, "end_time", <<>>) # <<>>
            THEN ended(startDate, startTime, ParseTime(Field(re, "end_time", <<>>)))
            ELSE IF Field(re, "duration", <<>>) # <<>>
            THEN lasting(startTime, ParseDuration(Field(re, "duration", <<>>)))
            ELSE event(startTime, startTime + SecondsPerHour)
        timed(startDate, start) ==
            IF ~start.ok THEN ConvertError("failed to parse start time")
            ELSE started(startDate, CombineDateTime(startDate, start.hour, start.minute))
        dated(parsed) ==
            IF dateStr # <<>> /\ ~parsed.ok THEN ConvertError("failed to parse start date")
            ELSE timed(IF dateStr # <<>> THEN parsed.v ELSE DayOf(now) * SecondsPerDay,
                       ParseTime(Field(re, "start_time", <<>>)))
    IN  dated(ParseDate(dateStr))

RECURSIVE RecurringLoop(_, _, _, _)
RecurringLoop(records, i, events, now) ==
    LET converted(r) ==
            IF ~r.ok THEN ParseError("failed to convert event")
            ELSE RecurringLoop(records, i + 1, Append(events, r.event), now)
    IN  IF i > Len(records) THEN Parsed(events)
        ELSE converted(convertRecurringEvent(records[i], now))

parseRecurring(data, now) ==
    LET template == DecodeTemplate(data)
    IN  IF ~template.ok THEN ParseError("failed to parse JSON")
        ELSE RecurringLoop(template.Events, 1, <<>>, now)

(***************************************************************************)
(* Date range dialect: convertDateRangeEvent, parseDateRange               *)
(***************************************************************************)

\* The conversion taking a record as all-day only when all_day is set.
convertDateRangeEvent_FlagOnly(dr) ==
    LET startStr == Field(dr, "start_time", <<>>)
        endStr   == Field(dr, "end_time", <<>>)
        allDay   == Field(dr, "all_day", FALSE)
        event(st, et) ==
            Converted(CalendarEvent(Field(dr, "name", ""), Field(dr, "description", <<>>),
                          st, et, Field(dr, "location", <<>>), Field(dr, "links", <<>>),
                          allDay, NoRecurrence, Field(dr, "color_id", <<>>)))
        timed(startDate, endDate, start, end) ==
            IF startStr # <<>> /\ ~start.ok THEN ConvertError("failed to parse start time")
            ELSE IF endStr # <<>> /\ ~end.ok THEN ConvertError("failed to parse end time")
            ELSE event(IF startStr # <<>>
                       THEN CombineDateTime(startDate, start.hour, start.minute)
                       ELSE startDate,
                       IF endStr # <<>>
                       THEN CombineDateTime(endDate, end.hour, end.minute)
                       ELSE CombineDateTime(endDate, 23, 59))
        dated(startDate, endDate) ==
            IF ~startDate.ok THEN ConvertError("failed to parse start date")
            ELSE IF ~endDate.ok THEN ConvertError("failed to parse end date")
            ELSE IF allDay THEN event(startDate.v, AddDays(endDate.v, 1))
            ELSE timed(startDate.v, endDate.v, ParseTime(startStr), ParseTime(endStr))
    IN  dated(ParseDate(Field(dr, "start_date", <<>>)), ParseDate(Field(dr, "end_date", <<>>)))

convertDateRangeEvent(dr) ==
    LET startStr == Field(dr, "start_time", <<>>)
        endStr   == Field(dr, "end_time", <<>>)
        allDay   == Field(dr, "all_day", FALSE) \/ (startStr = <<>> /\ endStr = <<>>)
        event(st, et) ==
            Converted(CalendarEvent(Field(dr, "name", ""), Field(dr, "description", <<>>),
                          st, et, Field(dr, "location", <<>>), Field(dr, "links", <<>>),
                          allDay, NoRecurrence, Field(dr, "color_id", <<>>)))
        timed(startDate, endDate, start, end) ==
            IF startStr # <<>> /\ ~start.ok THEN ConvertError("failed to parse start time")
            ELSE IF endStr # <<>> /\ ~end.ok THEN ConvertError("failed to parse end time")
            ELSE event(IF startStr # <<>>
                       THEN CombineDateTime(startDate, start.hour, start.minute)
                       ELSE startDate,
                       IF endStr # <<>>
                       THEN CombineDateTime(endDate, end.hour, end.minute)
                       ELSE CombineDateTime(endDate, 23, 59))
        dated(startDate, endDate) ==
            IF ~startDate.ok THEN ConvertError("failed to parse start date")
            ELSE IF ~endDate.ok THEN ConvertError("failed to parse end date")
            ELSE IF allDay THEN event(startDate.v, AddDays(endDate.v, 1))
            ELSE timed(startDate.v, endDate.v, ParseTime(startStr), ParseTime(endStr))
    IN  dated(ParseDate(Field(dr, "start_date", <<>>)), ParseDate(Field(dr, "end_date", <<>>)))

RECURSIVE DateRangeLoop(_, _, _)
DateRangeLoop(records, i, events) ==
    LET converted(r) ==
            IF ~r.ok THEN ParseError("failed to convert event")
            ELSE DateRangeLoop(records, i + 1, Append(events, r.event))
    IN  IF i > Len(records) THEN Parsed(events)
        ELSE converted(convertDateRangeEvent(records[i]))

parseDateRange(data) ==
    LET template == DecodeTemplate(data)
    IN  IF ~template.ok THEN ParseError("failed to parse JSON")
        ELSE DateRangeLoop(template.Events, 1, <<>>)

(***************************************************************************)
(* Weekly dialect: convertWeeklyEvent, parseWeekly                         *)
(***************************************************************************)

BlankLine == <<"\n", "\n">>

convertWeeklyEvent(we) ==
    LET topic  == Field(we, "topic_details", <<>>)
        extra  == Field(we, "description", <<>>)
        description ==
            IF extra # <<>>
            THEN (IF topic # <<>> THEN topic \o BlankLine ELSE topic) \o extra
            ELSE topic
        event(range) ==
            IF ~range.ok THEN ConvertError("failed to parse date/time")
            ELSE Converted(CalendarEvent(Field(we, "event_name", ""), description,
                               range.start, range.end, Field(we, "location", <<>>),
                               Field(we, "useful_links", <<>>), FALSE, NoRecurrence, <<>>))
    IN  event(ParseDateTimeRange(Field(we, "date", <<>>), Field(we, "time", <<>>)))

\* The filter of the key loop of parseWeekly.
HasWeekPrefix(key) == HasPrefix(ToLower(key), <<"w","e","e","k">>)

\* for key := range raw { if ... { keys = append(keys, key) } }, visiting the
\* keys in the order given.
RECURSIVE CollectWeekKeys(_, _)
CollectWeekKeys(order, keys) ==
    IF order = <<>> THEN keys
    ELSE CollectWeekKeys(Tail(order),
             IF HasWeekPrefix(Head(order)) THEN Append(keys, Head(order)) ELSE keys)

\* key put at its place in the ascending sequence sorted.
RECURSIVE InsertSorted(_, _)
InsertSorted(sorted, key) ==
    IF sorted = <<>> THEN <<key>>
    ELSE IF StrLess(key, Head(sorted)) THEN <<key>> \o sorted
    ELSE <<Head(sorted)>> \o InsertSorted(Tail(sorted), key)

\* The keys left in the order the map gave them.
SortStrings_Unsorted(keys) == keys

\* sort.Strings
RECURSIVE SortStrings(_)
SortStrings(keys) ==
    IF keys = <<>> THEN <<>>
    ELSE InsertSorted(SortStrings(SubSeq(keys, 1, Len(keys) - 1)), keys[Len(keys)])

\* json.Unmarshal(raw[weekKey], &weekEvents) into []WeeklyEvent
DecodeWeek(value) ==
    IF value.t = "null" THEN [ok |-> TRUE, weekEvents |-> <<>>]
    ELSE IF value.t # "array" THEN [ok |-> FALSE]
    ELSE IF \E i \in 1..Len(value.a) : ~IsObject(value.a[i]) THEN [ok |-> FALSE]
    ELSE [ok |-> TRUE, weekEvents |-> value.a]

\* The inner loop of parseWeekly over the events of one week.
RECURSIVE WeekEventsLoop(_, _, _)
WeekEventsLoop(weekEvents, i, events) ==
    LET converted(r) ==
            IF ~r.ok THEN ParseError("failed to convert event")
            ELSE WeekEventsLoop(weekEvents, i + 1, Append(events, r.event))
    IN  IF i > Len(weekEvents) THEN Parsed(events)
        ELSE converted(convertWeeklyEvent(weekEvents[i]))

\* The outer loop of parseWeekly over the sorted keys.
RECURSIVE WeeksLoop(_, _, _, _)
WeeksLoop(raw, keys, k, events) ==
    LET looped(r) == IF r.err # "nil" THEN r ELSE WeeksLoop(raw, keys, k + 1, r.events)
        decoded(week) ==
            IF ~week.ok THEN ParseError("failed to parse week")
            ELSE looped(WeekEventsLoop(week.weekEvents, 1, events))
    IN  IF k > Len(keys) THEN Parsed(events)
        ELSE decoded(DecodeWeek(raw[keys[k]]))

parseWeekly(data, order) ==
    IF ~data.valid THEN ParseError("failed to parse JSON")
    ELSE WeeksLoop(data.raw, SortStrings(CollectWeekKeys(order, <<>>)), 1, <<>>)

(***************************************************************************)
(* Writing numbers and instants: fmt.Sprintf("%d"), string(rune(n)),       *)
(* time.Time.Format, time.Time.UTC                                         *)
(***************************************************************************)

\* The decimal numeral of a natural number.
RECURSIVE Decimal(_)
Decimal(n) ==
    IF n < 10 THEN <<Digits[n + 1]>>
    ELSE Decimal(n \div 10) \o <<Digits[(n % 10) + 1]>>

\* fmt.Sprintf("%d", n)
FormatInt(n) == IF n < 0 THEN <<"-">> \o Decimal(0 - n) ELSE Decimal(n)

\* The characters with the code points 48 ('0') to 126 ('~'); U+005C and
\* U+0060 stand for the backslash and the grave accent.
Ascii ==
    Digits \o <<":", ";", "<", "=", ">", "?", "@">> \o Uppers
           \o <<"[", "U+005C", "]", "^", "_", "U+0060">> \o Lowers \o <<"{", "|", "}", "~">>

\* string(rune(n + '0')): the one character whose code point is n + 48.
RuneString(n) == <<Ascii[n + 1]>>

\* A number written with at least width digits, as Format writes a field.
ZeroPad(n, width) ==
    LET padded(s) == [i \in 1..(width - Len(s)) |-> "0"] \o s
    IN  padded(Decimal(n))

\* Year, month and day of the day number z (days from 1970-01-01).
CivilFromDays(z) ==
    LET date(y, mp, d) ==
            [y |-> IF mp < 10 THEN y ELSE y + 1,
             m |-> IF mp < 10 THEN mp + 3 ELSE mp - 9,
             d |-> d]
        month(y, doy, mp) == date(y, mp, doy - (153 * mp + 2) \div 5 + 1)
        day(y, doy) == month(y, doy, (5 * doy + 2) \div 153)
        year(era, doe, yoe) ==
            day(yoe + era * 400, doe - (365 * yoe + yoe \div 4 - yoe \div 100))
        inEra(era, doe) ==
            year(era, doe, (doe - doe \div 1460 + doe \div 36524 - doe \div 146096) \div 365)
        shifted(zz) == inEra(zz \div 146097, zz % 146097)
    IN  shifted(z + 719468)

\* t.UTC(): the wall-clock reading in UTC of an instant read in a location
\* offset seconds east of UTC.
UTC(t, offset) == t - offset

\* The layouts "2006-01-02", "20060102" and "20060102T150405Z" (its Z is
\* literal text) cut into chunks.
LayoutDate == LayoutISO

LayoutBasicDate == <<Std("2006"), Std("01"), Std("02")>>

LayoutBasicStamp ==
    <<Std("2006"), Std("01"), Std("02"), Lit(<<"T">>),
      Std("15"), Std("04"), Std("05"), Lit(<<"Z">>)>>

\* One standard field of a layout written from the clock reading c.
FormatStd(f, c) ==
    IF f = "2006" THEN ZeroPad(c.y, 4)
    ELSE IF f = "01" THEN ZeroPad(c.m, 2)
    ELSE IF f = "02" THEN ZeroPad(c.d, 2)
    ELSE IF f = "15" THEN ZeroPad(c.sec \div SecondsPerHour, 2)
    ELSE IF f = "04" THEN ZeroPad((c.sec % SecondsPerHour) \div SecondsPerMinute, 2)
    ELSE ZeroPad(c.sec % SecondsPerMinute, 2)

RECURSIVE FormatChunks(_, _)
FormatChunks(layout, c) ==
    IF layout = <<>> THEN <<>>
    ELSE (IF "lit" \in DOMAIN Head(layout) THEN Head(layout).lit
          ELSE FormatStd(Head(layout).std, c))
         \o FormatChunks(Tail(layout), c)

\* t.Format(layout): the wall-clock reading of t written in the layout.
Format(t, layout) ==
    LET reading(civil) ==
            FormatChunks(layout, [y |-> civil.y, m |-> civil.m, d |-> civil.d,
                                  sec |-> SecOfDay(t)])
    IN  reading(CivilFromDays(EpochDay + DayOf(t)))

(***************************************************************************)
(* Rendering a recurrence rule: RecurrenceRule.ToRRuleString (used by the  *)
(* file exporter) and Client.buildRRule (used by the remote adapter)       *)
(***************************************************************************)

\* for i, day := range r.ByDay { if i > 0 { rule += "," }; rule += day }
RECURSIVE ByDayLoop(_, _)
ByDayLoop(byDay, i) ==
    IF i > Len(byDay) THEN <<>>
    ELSE (IF i > 1 THEN <<",">> ELSE <<>>) \o byDay[i] \o ByDayLoop(byDay, i + 1)

\* r == nil
IsNilRule(r) == "none" \in DOMAIN r

\* r.Until != nil
HasUntil(r) == "none" \notin DOMAIN r.Until

ToRRuleString(r) ==
    IF IsNilRule(r) THEN <<>>
    ELSE <<"R","R","U","L","E",":","F","R","E","Q","=">> \o r.Frequency
         \o (IF r.Interval > 1 THEN <<";","I","N","T","E","R","V","A","L","=">> \o RuneString(r.Interval) ELSE <<>>)
         \o (IF HasUntil(r) THEN <<";","U","N","T","I","L","=">> \o Format(r.Until.t, LayoutBasicStamp) ELSE <<>>)
         \o (IF r.Count > 0 THEN <<";","C","O","U","N","T","=">> \o RuneString(r.Count) ELSE <<>>)
         \o (IF Len(r.ByDay) > 0 THEN <<";","B","Y","D","A","Y","=">> \o ByDayLoop(r.ByDay, 1) ELSE <<>>)

\* location is the offset of the rule's until instant, the parser's location.
buildRRule(r, location) ==
    IF IsNilRule(r) THEN <<>>
    ELSE <<"R","R","U","L","E",":","F","R","E","Q","=">> \o r.Frequency
         \o (IF r.Interval > 1 THEN <<";","I","N","T","E","R","V","A","L","=">> \o FormatInt(r.Interval) ELSE <<>>)
         \o (IF HasUntil(r)
             THEN <<";","U","N","T","I","L","=">> \o Format(UTC(r.Until.t, location), LayoutBasicStamp)
             ELSE <<>>)
         \o (IF r.Count > 0 THEN <<";","C","O","U","N","T","=">> \o FormatInt(r.Count) ELSE <<>>)
         \o (IF Len(r.ByDay) > 0 THEN <<";","B","Y","D","A","Y","=">> \o ByDayLoop(r.ByDay, 1) ELSE <<>>)

\* strings.TrimPrefix(s, prefix)
TrimPrefix(s, prefix) == IF HasPrefix(s, prefix) THEN Drop(s, Len(prefix)) ELSE s

(***************************************************************************)
(* The remote adapter: Client.convertToGoogleEvent, CreateEvent and        *)
(* CreateEvents                                                            *)
(***************************************************************************)

\* for _, link := range e.Links { desc += "- " + link + "\n" }
RECURSIVE LinksLoop(_, _)
LinksLoop(links, i) ==
    IF i > Len(links) THEN <<>>
    ELSE <<"-", " ">> \o links[i] \o <<"\n">> \o LinksLoop(links, i + 1)

\* CalendarEvent.FormatDescription
FormatDescription(e) ==
    IF Len(e.Links) > 0
    THEN e.Description
         \o (IF e.Description # <<>> THEN <<"\n", "\n">> ELSE <<>>)
         \o <<"U","s","e","f","u","l"," ","L","i","n","k","s",":">> \o <<"\n">> \o LinksLoop(e.Links, 1)
    ELSE e.Description

\* The zone of the layout time.RFC3339 ("Z07:00") for a location offset
\* seconds east of UTC.
ZoneText(offset) ==
    LET hhmm(sign, a) ==
            <<sign>> \o ZeroPad(a \div SecondsPerHour, 2) \o <<":">>
                     \o ZeroPad((a % SecondsPerHour) \div SecondsPerMinute, 2)
    IN  IF offset = 0 THEN <<"Z">>
        ELSE IF offset < 0 THEN hhmm("-", 0 - offset)
        ELSE hhmm("+", offset)

\* The layout "2006-01-02T15:04:05" cut into chunks: time.RFC3339 without
\* its zone.
LayoutDateTime ==
    LayoutDate \o <<Lit(<<"T">>), Std("15"), Lit(<<":">>), Std("04"), Lit(<<":">>), Std("05")>>

\* t.Format(time.RFC3339) for an instant read in the location offset.
FormatRFC3339(t, offset) == Format(t, LayoutDateTime) \o ZoneText(offset)

\* Client.convertToGoogleEvent for an event of the parser's location. The
\* name of the time zone is left out (a location is its offset), and so
\* are the reminders, which no parse function sets.
convertToGoogleEvent(event, location) ==
    [Summary     |-> event.Name,
     Description |-> FormatDescription(event),
     Location    |-> event.Location,
     Start       |-> IF event.AllDay
                     THEN [Date |-> Format(event.StartTime, LayoutDate), DateTime |-> <<>>]
                     ELSE [Date |-> <<>>, DateTime |-> FormatRFC3339(event.StartTime, location)],
     End         |-> IF event.AllDay
                     THEN [Date |-> Format(event.EndTime, LayoutDate), DateTime |-> <<>>]
                     ELSE [Date |-> <<>>, DateTime |-> FormatRFC3339(event.EndTime, location)],
     Recurrence  |-> IF ~IsNilRule(event.Recurrence) /\ buildRRule(event.Recurrence, location) # <<>>
                     THEN <<buildRRule(event.Recurrence, location)>>
                     ELSE <<>>,
     ColorId     |-> event.ColorID]

\* Client.CreateEvent: the result for the event record the pointer refers
\* to, after Events.Insert succeeded or failed.
CreateEvent(event, inserted) ==
    IF ~inserted THEN [Event |-> event, Success |-> FALSE, Error |-> "insert failed"]
    ELSE [Event |-> event, Success |-> TRUE, Error |-> "nil"]

\* The iteration taking the delay after the last request too.
Iteration_AlwaysSleeps(events, i, failing, location) ==
    << [op |-> "Insert", request |-> i, event |-> convertToGoogleEvent(events[i], location),
        ok |-> i \notin failing],
       [op |-> "callback", current |-> i, total |-> Len(events), name |-> events[i].Name,
        success |-> i \notin failing],
       [op |-> "Sleep", after |-> i] >>

\* What the loop of CreateEvents does for event i: the request, the
\* progress callback and the delay.
Iteration(events, i, failing, location) ==
    << [op |-> "Insert", request |-> i, event |-> convertToGoogleEvent(events[i], location),
        ok |-> i \notin failing],
       [op |-> "callback", current |-> i, total |-> Len(events), name |-> events[i].Name,
        success |-> i \notin failing] >>
    \o (IF i < Len(events) THEN << [op |-> "Sleep", after |-> i] >> ELSE <<>>)

\* The loop of CreateEvents ending at the first request that fails.
RECURSIVE CreateEventsLoop_StopsAtFailure(_, _, _, _, _, _)
CreateEventsLoop_StopsAtFailure(events, i, failing, location, results, log) ==
    IF i > Len(events) \/ (i - 1) \in failing
    THEN [results |-> results, err |-> "nil", log |-> log]
    ELSE CreateEventsLoop_StopsAtFailure(events, i + 1, failing, location,
             Append(results, CreateEvent(events[i], i \notin failing)),
             log \o Iteration(events, i, failing, location))

\* The loop of Client.CreateEvents from event i on; failing are the
\* requests whose Insert fails.
RECURSIVE CreateEventsLoop(_, _, _, _, _, _)
CreateEventsLoop(events, i, failing, location, results, log) ==
    IF i > Len(events)
    THEN [results |-> results, err |-> "nil", log |-> log]
    ELSE CreateEventsLoop(events, i + 1, failing, location,
             Append(results, CreateEvent(events[i], i \notin failing)),
             log \o Iteration(events, i, failing, location))

\* Client.CreateEvents. Every result holds &event, the address of the loop
\* variable: one variable per iteration when the module is built as Go 1.22
\* or later (perIteration), one variable for the whole loop before, which
\* holds the last event once the loop has ended.
CreateEvents(events, failing, location, perIteration) ==
    LET pointing(r) ==
            [r EXCEPT !.results =
                [i \in 1..Len(r.results) |->
                    [r.results[i] EXCEPT !.Event =
                        IF perIteration THEN @ ELSE events[Len(events)]]]]
    IN  pointing(CreateEventsLoop(events, 1, failing, location, <<>>, <<>>))

(***************************************************************************)
(* The file exporter: GenerateICS                                          *)
(***************************************************************************)

\* The zero time.Time, January 1 of year 1: out of the range of the model's
\* instants, it is written as the least of them.
ZeroTime == 0 - 2147483647

\* t.IsZero()
IsZero(t) == t = ZeroTime

\* generateUID: the hash of name, start time and description, written as
\* the three values it is computed from.
generateUID(e) == [name |-> e.Name, start |-> e.StartTime, description |-> e.Description]

\* The end an all-day entry is written with (config.go:95-101).
AllDayEnd(e) ==
    IF IsZero(e.EndTime) \/ e.EndTime = e.StartTime
    THEN AddDays(e.StartTime, 1)
    ELSE AddDays(e.EndTime, 1)

\* The end a timed entry is written with (config.go:105-111).
TimedEnd(e) == IF ~IsZero(e.EndTime) THEN e.EndTime ELSE e.StartTime + SecondsPerHour

\* The entry GenerateICS adds for one event of the parser's location; a
\* property is the sequence of its values, empty when it is not set.
\* SetStartAt and SetEndAt write the instant in UTC; the stamp of the
\* writing time is left out.
ICSEntry(e, location) ==
    [UID         |-> generateUID(e),
     Summary     |-> e.Name,
     Description |-> IF e.Description # <<>> THEN <<FormatDescription(e)>> ELSE <<>>,
     Location    |-> IF e.Location # <<>> THEN <<e.Location>> ELSE <<>>,
     DtStart     |-> IF e.AllDay
                     THEN [value |-> Format(e.StartTime, LayoutBasicDate), type |-> "DATE"]
                     ELSE [value |-> Format(UTC(e.StartTime, location), LayoutBasicStamp),
                           type |-> "DATE-TIME"],
     DtEnd       |-> IF e.AllDay
                     THEN [value |-> Format(AllDayEnd(e), LayoutBasicDate), type |-> "DATE"]
                     ELSE [value |-> Format(UTC(TimedEnd(e), location), LayoutBasicStamp),
                           type |-> "DATE-TIME"],
     RRule       |-> IF ~IsNilRule(e.Recurrence)
                     THEN <<TrimPrefix(ToRRuleString(e.Recurrence), <<"R","R","U","L","E",":">>)>>
                     ELSE <<>>]

\* GenerateICS: one entry per event, in the order of the events.
GenerateICS(events, location) == [i \in 1..Len(events) |-> ICSEntry(events[i], location)]

(***************************************************************************)
(* Parser.Parse                                                            *)
(***************************************************************************)

\* Parse detecting the format for every hint that names no dialect.
EffectiveFormat_DetectsUnknown(format, data, order) ==
    IF format \notin {FormatWeekly, FormatSingle, FormatRecurring, FormatDateRange}
    THEN detectFormat(data, order)
    ELSE format

\* The value of format after lines 165-167 of Parse.
EffectiveFormat(format, data, order) ==
    IF format = FormatAuto \/ format = <<>> THEN detectFormat(data, order) ELSE format

\* The sequences that list every element of the set S once: the orders in
\* which a range loop may visit the keys of a map.
Orders(S) ==
    {o \in [1..Cardinality(S) -> S] : \A i, j \in 1..Cardinality(S) : o[i] = o[j] => i = j}

(***************************************************************************)
(* Inputs of the model                                                     *)
(***************************************************************************)

\* Longest events array and largest number of week keys of a document.
MaxEvents == 2

MaxKeys == 2

\* All sequences over S of length lo..hi.
SeqsOf(S, lo, hi) == UNION {[1..n -> S] : n \in lo..hi}

\* A top-level field that the document does not have.
Absent == [absent |-> TRUE]

\* The choices for one field of a record: omitted, or given with a value of S.
Omitted == <<>>

Given(S) == {<<v>> : v \in S}

\* Functions with a domain of field names, each field from its choices.
RECURSIVE Records(_, _)
Records(names, values) ==
    IF names = <<>> THEN {<<>>}
    ELSE LET rest == Records(Tail(names), Tail(values))
         IN  {IF c = Omitted THEN r ELSE (Head(names) :> c[1]) @@ r : c \in Head(values), r \in rest}

DateDec9 == <<"2","0","2","5","-","1","2","-","0","9">>

DateDec10 == <<"2","0","2","5","-","1","2","-","1","0">>

DateDec31US == <<"1","2","/","3","1","/","2","0","2","5">>

DateBad == <<"2","0","2","5","-","1","3","-","0","1">>

TimeBad == <<"n","o","o","n">>

DurationBad == <<"s","o","o","n">>

KeyWeek1 == <<"w","e","e","k","_","1">>

KeyWeek2 == <<"w","e","e","k","_","2">>

KeyWeek10 == <<"w","e","e","k","_","1","0">>

KeyWeekSpace == <<"W","e","e","k"," ","3">>

KeyWeekend == <<"w","e","e","k","e","n","d">>

KeyMetadata == <<"m","e","t","a","d","a","t","a">>

\* Records of the single dialect: every combination of the field values.
SingleRecords ==
    Records(<<"name", "date", "start_time", "end_time", "duration", "all_day">>,
            << Given({"S"}),
               Given({DateDec9, DateDec31US, DateBad}),
               Given({<<"2","3",":","0","0">>, <<"1","0",":","0","0","a","m">>, TimeBad}),
               {Omitted} \cup Given({<<"0","1",":","0","0">>, <<"1","1",":","3","0"," ","P","M">>,
                                      <<"2","3",":","0","0">>, TimeBad}),
               {Omitted} \cup Given({<<"9","0"," ","m","i","n","u","t","e","s">>, <<"-","1","h">>,
                                      DurationBad}),
               {Omitted} \cup Given({TRUE}) >>)

\* Records of the daterange dialect.
DateRangeRecords ==
    Records(<<"name", "start_date", "end_date", "start_time", "end_time", "all_day">>,
            << Given({"D"}),
               Given({DateDec9, DateDec10, DateBad}),
               Given({DateDec9, DateDec31US, DateBad}),
               {Omitted} \cup Given({<<"1","0",":","0","0">>, TimeBad}),
               {Omitted} \cup Given({<<"0","9",":","0","0">>, <<"6",":","0","0","p","m">>}),
               {Omitted} \cup Given({TRUE}) >>)

\* Recurrence objects of the recurring dialect.
Recurrences ==
    Records(<<"frequency", "interval", "until", "count", "by_day", "exclude_weekends">>,
            << {Omitted} \cup Given({<<"D","A","I","L","Y">>, <<"w","e","e","k","l","y">>,
                                      <<"h","o","u","r","l","y">>}),
               {Omitted} \cup Given({2, -1}),
               {Omitted} \cup Given({DateDec31US, DateBad}),
               {Omitted} \cup Given({5}),
               {Omitted} \cup Given({<<>>, <<<<"M","o","n","d","a","y">>, <<"f","r","i">>>>,
                                      <<<<" ","s","a","t"," ">>, <<"X","X">>>>}),
               {Omitted} \cup Given({TRUE}) >>)

Daily == [frequency |-> <<"D","A","I","L","Y">>]

\* Records of the recurring dialect: every combination of the event fields
\* with one recurrence, and every recurrence with one event.
RecurringRecords ==
    Records(<<"name", "start_date", "start_time", "end_time", "duration", "recurrence">>,
            << Given({"R"}),
               {Omitted} \cup Given({DateDec9, DateBad}),
               Given({<<"0","9",":","0","0">>, <<"2","3",":","3","0">>, TimeBad}),
               {Omitted} \cup Given({<<"0","8",":","0","0">>, <<"2","3",":","4","5">>}),
               {Omitted} \cup Given({<<"1","5","m">>, DurationBad}),
               Given({Daily}) >>)
    \cup
    Records(<<"name", "start_time", "duration", "recurrence">>,
            << Given({"R"}), Given({<<"0","9",":","0","0">>}), Given({<<"1","5","m">>}),
               {Omitted} \cup Given(Recurrences) >>)

\* Records for arrays of several events: named after their place in the
\* pool, the last one of each pool failing to convert.
SinglePool ==
    { [name |-> "s1", date |-> DateDec9, start_time |-> <<"2","3",":","0","0">>, end_time |-> <<"0","1",":","0","0">>],
      [name |-> "s2", date |-> DateDec31US, all_day |-> TRUE],
      [name |-> "s3", date |-> DateDec9, start_time |-> TimeBad] }

RecurringPool ==
    { [name |-> "r1", start_date |-> DateDec9, start_time |-> <<"0","9",":","0","0">>, recurrence |-> Daily],
      [name |-> "r2", start_time |-> <<"2","3",":","3","0">>, end_time |-> <<"0","8",":","0","0">>,
       recurrence |-> [frequency |-> <<"w","e","e","k","l","y">>, exclude_weekends |-> TRUE]],
      [name |-> "r3", start_time |-> <<"0","9",":","0","0">>, recurrence |-> [frequency |-> <<"h","o","u","r","l","y">>]] }

DateRangePool ==
    { [name |-> "d1", start_date |-> DateDec9, end_date |-> DateDec10],
      [name |-> "d2", start_date |-> DateDec9, end_date |-> DateDec31US,
       start_time |-> <<"1","0",":","0","0">>, end_time |-> <<"6",":","0","0","p","m">>],
      [name |-> "d3", start_date |-> DateDec9, end_date |-> DateBad] }

\* A record every converter of an events array accepts.
AnyDialectRecord ==
    [name |-> "x", date |-> DateDec9, start_date |-> DateDec9, end_date |-> DateDec10,
     start_time |-> <<"1","0",":","0","0">>, end_time |-> <<"1","1",":","0","0">>, recurrence |-> Daily]

\* The documents {"format": f, "events": records}.
TemplateDocs(f, arrays) == {Doc((KeyFormat :> JStr(f)) @@ (KeyEvents :> JArr(a))) : a \in arrays}

SingleDocs ==
    TemplateDocs(FormatSingle, SeqsOf(SingleRecords, 1, 1) \cup SeqsOf(SinglePool, 2, MaxEvents))

RecurringDocs ==
    TemplateDocs(FormatRecurring,
                 SeqsOf(RecurringRecords, 1, 1) \cup SeqsOf(RecurringPool, 2, MaxEvents))

DateRangeDocs ==
    TemplateDocs(FormatDateRange,
                 SeqsOf(DateRangeRecords, 1, 1) \cup SeqsOf(DateRangePool, 2, MaxEvents))

\* The events of one week: n events named after the key and their place,
\* even places overnight, the event at place bad (if any) unparseable.
WeekEvents(key, n, bad) ==
    [i \in 1..n |->
        [event_name |-> <<key, i>>,
         date |-> DateDec9,
         time |-> IF i = bad THEN <<"1","0",":","0","0">>
                  ELSE IF i % 2 = 0 THEN <<"1","1",":","0","0","p","m","-","1",":","0","0","a","m">>
                  ELSE <<"1","1",":","0","0","a","m"," ","U+2013"," ","1",":","0","0","p","m">>,
         topic_details |-> IF i % 2 = 0 THEN <<>> ELSE <<"topic">>,
         description |-> IF i = bad THEN <<>> ELSE <<"more">>]]

\* The values a top-level key may have: arrays of events, or not an array.
WeekValues(key) ==
    IF key = KeyMetadata THEN {JStr(<<"x">>)}
    ELSE IF key = KeyWeekend THEN {JStr(<<"x">>), JArr(WeekEvents(key, 1, 0))}
    ELSE {JArr(WeekEvents(key, n, bad)) : n \in 0..MaxEvents, bad \in 0..MaxEvents}
             \cup {JStr(<<"x">>)}

TopLevelKeys == {KeyWeek1, KeyWeek2, KeyWeek10, KeyWeekSpace, KeyWeekend, KeyMetadata}

\* Documents of the weekly dialect: up to MaxKeys top-level keys.
WeeklyDocs ==
    {Doc(raw) : raw \in UNION {{r \in [K -> UNION {WeekValues(k) : k \in K}] :
                                   \A k \in K : r[k] \in WeekValues(k)} :
                               K \in {K \in SUBSET TopLevelKeys : Cardinality(K) <= MaxKeys}}}

\* Values of the top-level format field.
FormatFields ==
    {Absent, JNum, JNull} \cup
    {JStr(f) : f \in {FormatWeekly, FormatSingle, FormatRecurring, FormatDateRange, FormatAuto,
                      <<"b","o","g","u","s">>, <<"W","e","e","k","l","y">>, <<"D","A","T","E","R","A","N","G","E">>, <<>>}}

\* Values of the top-level events field.
EventsFields ==
    { Absent, JNum, JArr(<<>>), JArr(<<JNum>>),
      JArr(<<AnyDialectRecord>>),
      JArr(<<[name |-> "s1", date |-> DateDec9, start_time |-> <<"2","3",":","0","0">>]>>),
      JArr(<<[name |-> "r1", start_time |-> <<"0","9",":","0","0">>, recurrence |-> Daily]>>),
      JArr(<<[name |-> "d1", start_date |-> DateDec9, end_date |-> DateDec10]>>),
      JArr(<<[name |-> "s1", date |-> DateDec9, start_time |-> <<"2","3",":","0","0">>], AnyDialectRecord>>) }

\* Week keys next to the format and events fields.
WeekFields ==
    { <<>>, KeyWeek1 :> JArr(WeekEvents(KeyWeek1, 1, 0)),
      KeyWeekSpace :> JArr(WeekEvents(KeyWeekSpace, 1, 0)),
      KeyWeekend :> JStr(<<"x">>) }

\* Documents for the detector and the dispatcher.
DispatchDocs ==
    {BadJSON} \cup
    {Doc((IF f = Absent THEN <<>> ELSE KeyFormat :> f)
         @@ (IF e = Absent THEN <<>> ELSE KeyEvents :> e) @@ w) :
        f \in FormatFields, e \in EventsFields, w \in WeekFields}

\* Values of the --format flag (interactive mode passes FormatAuto).
FormatOverrides ==
    { FormatAuto, <<>>, FormatWeekly, FormatSingle, FormatRecurring, FormatDateRange,
      <<"b","o","g","u","s">>, <<"A","U","T","O">>, <<"S","i","n","g","l","e">> }

\* Instants time.Now() may return.
Nows == { DateOf(2025, 12, 9, 10, 15, 0), DateOf(2025, 12, 31, 23, 59, 59) }

(***************************************************************************)
(* The program: one run of the parser on a template.                       *)
(*   data            the bytes of the template file                        *)
(*   formatOverride  the value of the --format flag                        *)
(*   pc              "ready" before Parse is called, "done" after          *)
(*   format          the format Parse switched on                          *)
(*   called          the parse function the switch called, or "none"       *)
(*   events, err     what Parse returned                                   *)
(***************************************************************************)
VARIABLES data, formatOverride, pc, format, called, events, err,
          command, arg, ret, dryRun, loc, log, results, ics

vars == <<data, formatOverride, pc, format, called, events, err,
          command, arg, ret, dryRun, loc, log, results, ics>>

\* The state of a called function: its argument and what it returned.
callVars == <<arg, ret>>

\* The state of a command around the parser: the dry-run setting, the
\* parser's location (seconds east of UTC), what the command did so far
\* (log), the results of CreateEvents and the entries of the exported file.
commandVars == <<dryRun, loc, log, results, ics>>

NoCall == arg = <<>> /\ ret = <<>>

NoCommand == dryRun = FALSE /\ loc = 0 /\ log = <<>> /\ results = <<>> /\ ics = <<>>

Init ==
    /\ \/ data \in DispatchDocs /\ formatOverride \in FormatOverrides
       \/ /\ data \in SingleDocs \cup RecurringDocs \cup DateRangeDocs \cup WeeklyDocs
          /\ formatOverride = FormatAuto
    /\ pc = "ready"
    /\ format = <<>>
    /\ called = "none"
    /\ events = <<>>
    /\ err = "nil"
    /\ command = "Parse"
    /\ NoCall
    /\ NoCommand

\* The keys of the top-level object in the orders a range loop may visit them.
KeyOrders(d) == Orders(DOMAIN d.raw)

\* format := templates.TemplateFormat(strings.ToLower(formatOverride))
FormatArg == ToLower(formatOverride)

\* The values format may have at the switch of Parse, over the orders in
\* which detectFormat may visit the keys.
SwitchFormats == {EffectiveFormat(FormatArg, data, o) : o \in KeyOrders(data)}

\* Parse returns result after switching on f and calling fn.
Return(f, fn, result) ==
    /\ pc' = "done"
    /\ format' = f
    /\ called' = fn
    /\ events' = result.events
    /\ err' = result.err
    /\ UNCHANGED <<data, formatOverride, command, callVars, commandVars>>

\* Parse, through case FormatWeekly of its switch.
CaseWeekly ==
    /\ pc = "ready"
    /\ FormatWeekly \in SwitchFormats
    /\ \E result \in {parseWeekly(data, o) : o \in KeyOrders(data)} :
          Return(FormatWeekly, "parseWeekly", result)

\* Parse, through case FormatSingle.
CaseSingle ==
    /\ pc = "ready"
    /\ FormatSingle \in SwitchFormats
    /\ Return(FormatSingle, "parseSingle", parseSingle(data))

\* Parse, through case FormatRecurring.
CaseRecurring ==
    /\ pc = "ready"
    /\ FormatRecurring \in SwitchFormats
    /\ \E now \in Nows : Return(FormatRecurring, "parseRecurring", parseRecurring(data, now))

\* Parse, through case FormatDateRange.
CaseDateRange ==
    /\ pc = "ready"
    /\ FormatDateRange \in SwitchFormats
    /\ Return(FormatDateRange, "parseDateRange", parseDateRange(data))

\* Parse, through the default case.
CaseDefault ==
    /\ pc = "ready"
    /\ \E f \in SwitchFormats :
          /\ f \notin {FormatWeekly, FormatSingle, FormatRecurring, FormatDateRange}
          /\ Return(f, "none", ParseError("unknown template format"))

Next == CaseWeekly \/ CaseSingle \/ CaseRecurring \/ CaseDateRange \/ CaseDefault

Spec == Init /\ [][Next]_vars

(***************************************************************************)
(* The program: one call of a function of the temporal parser or of a      *)
(* rule renderer, command naming the function and arg being its argument.  *)
(***************************************************************************)

\* The largest interval and count of the rules rendered.
MaxNumber == 10

Minutes == {0, 15, 30, 59}

AmMarkers == { <<"a","m">>, <<"A","M">>, <<"A","m">>, <<" ","a","m">>, <<" ","A","M">>, <<"a",".","m",".">>, <<" ","a",".","m",".">>, <<"A",".","M",".">> }

PmMarkers == { <<"p","m">>, <<"P","M">>, <<"P","m">>, <<" ","p","m">>, <<" ","P","M">>, <<"p",".","m",".">>, <<" ","p",".","m",".">>, <<"P",".","M",".">> }

\* The text "h:mm" followed by a marker.
ClockText(h, m, marker) == Decimal(h) \o <<":">> \o ZeroPad(m, 2) \o marker

TimeTexts ==
    { ClockText(h, m, marker) : h \in 1..12, m \in Minutes, marker \in AmMarkers \cup PmMarkers }
    \cup { <<"1","0",":","0","0">>, <<"2","3",":","5","9">>, <<" ","7",":","0","5","p","m"," ">>, <<"1","0",":","0","0",":","0","0">>, <<"1","0">>, TimeBad, <<>> }

DateTexts ==
    { DateDec9, <<"1","2","/","0","9","/","2","0","2","5">>, <<"0","9","-","1","2","-","2","0","2","5">>, <<"D","e","c","e","m","b","e","r"," ","9",","," ","2","0","2","5">>, <<"D","e","c"," ","9",","," ","2","0","2","5">>,
      <<"2","0","2","5","/","1","2","/","0","9">>, <<" ","2","0","2","5","-","1","2","-","0","9"," ">>, <<"d","e","c","e","m","b","e","r"," ","9",","," ","2","0","2","5">>, DateDec31US,
      DateBad, <<"9"," ","D","e","c","e","m","b","e","r"," ","2","0","2","5">>, <<"2","0","2","5","-","0","2","-","3","0">>, <<"1","2","/","0","9","/","2","5">>, <<>> }

UntilDec31 == [t |-> DateOf(2025, 12, 31, 23, 59, 59)]

\* The rules a renderer is given: those the recurring converter can build.
Rules ==
    [ Frequency       : { <<"D","A","I","L","Y">>, <<"W","E","E","K","L","Y">> },
      Interval        : {-1} \cup 1..MaxNumber,
      Until           : { NoUntil, UntilDec31 },
      Count           : 0..MaxNumber,
      ByDay           : { <<>>, <<DayMO>>, <<DayMO, DayWE>> },
      ExcludeWeekends : { FALSE } ]

\* Locations of the parser, in seconds east of UTC.
Offsets == { 0, 0 - 5 * SecondsPerHour, 5 * SecondsPerHour + 30 * SecondsPerMinute }

\* Durations written with unit words next to their compact forms: whole
\* hours, minutes, hours and minutes, and half hours.
DurationForms ==
    UNION { { [words |-> Decimal(n) \o <<"h">>, compact |-> Decimal(n) \o <<"h">>],
              [words |-> Decimal(n) \o <<" ","h","o","u","r","s">>, compact |-> Decimal(n) \o <<"h">>],
              [words |-> Decimal(n) \o <<"h","r","s">>, compact |-> Decimal(n) \o <<"h">>],
              [words |-> Decimal(n) \o <<" ","H","o","u","r">>, compact |-> Decimal(n) \o <<"h">>],
              [words |-> Decimal(9 * n) \o <<" ","m","i","n","u","t","e","s">>, compact |-> Decimal(9 * n) \o <<"m">>],
              [words |-> Decimal(9 * n) \o <<"m","i","n">>, compact |-> Decimal(9 * n) \o <<"m">>],
              [words |-> Decimal(n) \o <<" ","h","o","u","r"," ","3","0"," ","m","i","n","u","t","e","s">>, compact |-> Decimal(n) \o <<"h","3","0","m">>],
              [words |-> Decimal(n) \o <<"h"," ","3","0","m">>, compact |-> Decimal(n) \o <<"h","3","0","m">>],
              [words |-> Decimal(n) \o <<".","5"," ","h","o","u","r","s">>, compact |-> Decimal(n) \o <<".","5","h">>],
              [words |-> Decimal(n) \o <<".","5","h","r">>, compact |-> Decimal(n) \o <<".","5","h">>] } :
            n \in 1..MaxNumber }

\* Texts given to ParseDuration: the forms above and texts no strategy reads.
DurationTexts ==
    {f.words : f \in DurationForms} \cup { <<>>, <<"s","o","o","n">>, <<"h">>, <<"h","a","l","f"," ","a","n"," ","h","o","u","r">>, <<"1","d">> }

parseVars == <<data, formatOverride, format, called, events, err>>

NoParse ==
    /\ data = BadJSON /\ formatOverride = <<>> /\ format = <<>>
    /\ called = "none" /\ events = <<>> /\ err = "nil"

CallInit ==
    /\ \/ command = "ParseTime" /\ arg \in TimeTexts /\ loc = 0
       \/ command = "ParseDate" /\ arg \in DateTexts /\ loc = 0
       \/ command = "ParseDuration" /\ arg \in DurationTexts /\ loc = 0
       \/ command \in {"ToRRuleString", "buildRRule"} /\ arg \in Rules /\ loc \in Offsets
    /\ pc = "ready"
    /\ ret = <<>>
    /\ NoParse
    /\ dryRun = FALSE /\ log = <<>> /\ results = <<>> /\ ics = <<>>

\* The called function returns value.
Returns(value) ==
    /\ pc' = "done"
    /\ ret' = value
    /\ UNCHANGED <<parseVars, command, arg, commandVars>>

CallParseTime == pc = "ready" /\ command = "ParseTime" /\ Returns(ParseTime(arg))

CallParseDate == pc = "ready" /\ command = "ParseDate" /\ Returns(ParseDate(arg))

CallParseDuration == pc = "ready" /\ command = "ParseDuration" /\ Returns(ParseDuration(arg))

CallToRRuleString == pc = "ready" /\ command = "ToRRuleString" /\ Returns(ToRRuleString(arg))

CallBuildRRule == pc = "ready" /\ command = "buildRRule" /\ Returns(buildRRule(arg, loc))

CallNext ==
    CallParseTime \/ CallParseDate \/ CallParseDuration \/ CallToRRuleString \/ CallBuildRRule

CallSpec == CallInit /\ [][CallNext]_vars

(***************************************************************************)
(* The commands around the parser: add (runAdd of main.go), interactive    *)
(* add (runAdd of interactive/run.go) and export (runExport).  A command   *)
(* calls ParseFile (pc goes from "ready" to "done" by Parse) and goes on:  *)
(*   pc       "confirmed" after the interactive dry run was confirmed,     *)
(*            "client" once the calendar client exists, "returned" at the  *)
(*            end of the command                                           *)
(*   log      what the command did: previews, prompts, the client's        *)
(*            creation, requests, callbacks, delays and the return         *)
(*   results  what CreateEvents returned                                   *)
(*   ics      the entries GenerateICS wrote                                *)
(***************************************************************************)

\* All-day events for the exporter and the adapter: several days with links
\* and no description, one day with a description and a location.
AllDayPool ==
    { [name |-> "a1", start_date |-> DateDec9, end_date |-> DateDec10,
       links |-> << <<"x",".","i","o">> >>],
      [name |-> "a2", start_date |-> DateDec9, end_date |-> DateDec9,
       description |-> <<"n","o","t","e","s">>, location |-> <<"l","a","b">>] }

\* A recurring event whose rule has every field.
RulePool ==
    { [name |-> "u1", start_date |-> DateDec9, start_time |-> <<"0","9",":","0","0">>, duration |-> <<"1","5","m">>,
       recurrence |-> [frequency |-> <<"w","e","e","k","l","y">>, interval |-> 10, until |-> DateDec31US,
                       count |-> 12, by_day |-> << <<"M","o","n","d","a","y">>, <<"w","e","d">> >>]] }

\* The templates the commands are run on: each dialect with up to MaxEvents
\* events, templates that fail to convert, to decode, or name no dialect.
CommandDocs ==
    TemplateDocs(FormatSingle, SeqsOf(SinglePool, 0, MaxEvents))
    \cup TemplateDocs(FormatRecurring, SeqsOf(RecurringPool \cup RulePool, 1, MaxEvents))
    \cup TemplateDocs(FormatDateRange, SeqsOf(DateRangePool \cup AllDayPool, 1, MaxEvents))
    \cup {Doc(KeyWeek1 :> JArr(WeekEvents(KeyWeek1, n, bad))) : n \in 0..MaxEvents, bad \in 0..1}
    \cup {BadJSON, Doc(KeyFormat :> JStr(<<"b","o","g","u","s">>))}

Commands == {"add", "interactive add", "export"}

\* The interactive mode passes FormatAuto; the flag's default is auto.
CommandInit ==
    /\ command \in Commands
    /\ data \in CommandDocs
    /\ formatOverride = FormatAuto
    /\ dryRun \in (IF command = "export" THEN {FALSE} ELSE BOOLEAN)
    /\ loc \in Offsets
    /\ pc = "ready"
    /\ format = <<>>
    /\ called = "none"
    /\ events = <<>>
    /\ err = "nil"
    /\ NoCall
    /\ log = <<>> /\ results = <<>> /\ ics = <<>>

\* The command returns the error why ("nil" for none).
Returned(why) == [op |-> "return", err |-> why]

\* The command goes to position next having done the entries.
Goes(next, entries) ==
    /\ pc' = next
    /\ log' = log \o entries
    /\ UNCHANGED <<parseVars, command, callVars, dryRun, loc>>

\* ParseFile failed: the command returns the error.
ParseFailed ==
    /\ pc = "done" /\ command \in Commands /\ err # "nil"
    /\ Goes("returned", << Returned("failed to parse template") >>)
    /\ UNCHANGED <<results, ics>>

\* runAdd of main.go with --dry-run: the summary, and return.
AddDryRun ==
    /\ pc = "done" /\ command = "add" /\ err = "nil" /\ dryRun
    /\ Goes("returned", << [op |-> "PrintEventSummary"], Returned("nil") >>)
    /\ UNCHANGED <<results, ics>>

\* runAdd of interactive/run.go with dry run: the summary, then the prompt
\* "Do you want to proceed with adding these events?".
InteractiveDryRun ==
    /\ pc = "done" /\ command = "interactive add" /\ err = "nil" /\ dryRun
    /\ \/ Goes("confirmed", << [op |-> "PrintEventSummary"], [op |-> "Confirm", answer |-> "yes"] >>)
       \/ Goes("returned", << [op |-> "PrintEventSummary"], [op |-> "Confirm", answer |-> "no"],
                              Returned("nil") >>)
       \/ Goes("returned", << [op |-> "PrintEventSummary"], [op |-> "Confirm", answer |-> "error"],
                              Returned("prompt failed") >>)
    /\ UNCHANGED <<results, ics>>

\* calendar.NewClient, in both modes of add.
NewClient ==
    /\ command \in {"add", "interactive add"} /\ err = "nil"
    /\ (pc = "done" /\ ~dryRun) \/ pc = "confirmed"
    /\ \/ Goes("client", << [op |-> "NewClient", ok |-> TRUE] >>)
       \/ Goes("returned", << [op |-> "NewClient", ok |-> FALSE],
                              Returned("failed to create calendar client") >>)
    /\ UNCHANGED <<results, ics>>

\* client.CreateEvents with the progress callback, and the end of add.
CallCreateEvents ==
    /\ pc = "client"
    /\ \E failing \in SUBSET (1..Len(events)), perIteration \in BOOLEAN :
          LET returns(r) ==
                  /\ results' = r.results
                  /\ Goes("returned", r.log \o << Returned(r.err) >>)
          IN  returns(CreateEvents(events, failing, loc, perIteration))
    /\ UNCHANGED ics

\* runExport: os.Create and GenerateICS.
Export ==
    /\ pc = "done" /\ command = "export" /\ err = "nil"
    /\ \/ /\ ics' = GenerateICS(events, loc)
          /\ Goes("returned", << [op |-> "Create", ok |-> TRUE], Returned("nil") >>)
       \/ /\ ics' = ics
          /\ Goes("returned", << [op |-> "Create", ok |-> FALSE],
                                 Returned("failed to create output file") >>)
    /\ UNCHANGED results

CommandNext ==
    \/ CaseWeekly \/ CaseSingle \/ CaseRecurring \/ CaseDateRange \/ CaseDefault
    \/ ParseFailed \/ AddDryRun \/ InteractiveDryRun \/ NewClient \/ CallCreateEvents \/ Export

CommandSpec == CommandInit /\ [][CommandNext]_vars

(***************************************************************************)
(* Properties                                                              *)
(***************************************************************************)

Dialects == {FormatWeekly, FormatSingle, FormatRecurring, FormatDateRange}

\* Parse was asked to detect the format.
AutoMode == FormatArg = FormatAuto \/ FormatArg = <<>>

\* The document has a string-valued top-level format field.
HasFormatString == data.valid /\ KeyFormat \in DOMAIN data.raw /\ data.raw[KeyFormat].t = "string"

\* The document has a key of the week_1 style.
HasWeekStyleKey == data.valid /\ \E k \in DOMAIN data.raw : IsWeekKey(k)

\* The parse function of a dialect.
ConverterOf(f) ==
    IF f = FormatWeekly THEN "parseWeekly"
    ELSE IF f = FormatSingle THEN "parseSingle"
    ELSE IF f = FormatRecurring THEN "parseRecurring"
    ELSE IF f = FormatDateRange THEN "parseDateRange"
    ELSE "none"

\* The records of the events array a template dialect converts.
TemplateRecords == IF DecodeTemplate(data).ok THEN DecodeTemplate(data).Events ELSE <<>>

\* C1: in auto-detection mode a document with a string-valued format field
\* and week_1-style keys is dispatched by the lowercased format value, never
\* by the key heuristic, and every order of visiting the keys detects the
\* same format.
C1_FormatFieldBeatsWeekKeys ==
    (pc = "done" /\ AutoMode) =>
        /\ \A o \in KeyOrders(data) : detectFormat(data, o) = format
        /\ (HasFormatString /\ HasWeekStyleKey) =>
              /\ format = ToLower(data.raw[KeyFormat].s)
              /\ called = ConverterOf(ToLower(data.raw[KeyFormat].s))
              /\ (called = "parseWeekly" => ToLower(data.raw[KeyFormat].s) = FormatWeekly)

C1_Witness ==
    /\ pc = "done" /\ AutoMode /\ HasFormatString /\ HasWeekStyleKey
    /\ data.raw[KeyFormat].s = <<"D","A","T","E","R","A","N","G","E">>
    /\ called = "parseDateRange"

\* The format named by the hint or, in auto mode, by the document's
\* string-valued format field names no dialect.
NamesUnknownFormat ==
    \/ ~AutoMode /\ FormatArg \notin Dialects
    \/ AutoMode /\ HasFormatString /\ ToLower(data.raw[KeyFormat].s) \notin Dialects

\* C2: a format name outside {weekly, single, recurring, daterange}, given
\* as the hint or read from the format field in auto mode, makes Parse
\* return the unknown-format error and no events, and no converter runs.
C2_UnknownFormatFails ==
    (pc = "done" /\ NamesUnknownFormat) =>
        /\ err = "unknown template format"
        /\ events = <<>>
        /\ called = "none"

C2_Witness ==
    /\ pc = "done" /\ AutoMode /\ HasFormatString
    /\ data.raw[KeyFormat].s = <<"b","o","g","u","s">>
    /\ KeyEvents \in DOMAIN data.raw /\ data.raw[KeyEvents] = JArr(<<AnyDialectRecord>>)
    /\ err = "unknown template format" /\ called = "none"

\* C3: in auto-detection mode Parse never returns the unknown-format error
\* for a document whose format field is weekly, single, recurring, daterange
\* or auto.
C3_DocumentedFormatsAccepted ==
    (pc = "done" /\ AutoMode /\ HasFormatString
        /\ data.raw[KeyFormat].s \in Dialects \cup {FormatAuto}) =>
        err # "unknown template format"

\* Some record the called converter has to convert fails to convert.
SomeRecordFails ==
    \/ /\ called = "parseSingle"
       /\ \E i \in 1..Len(TemplateRecords) : ~convertSingleEvent(TemplateRecords[i]).ok
    \/ /\ called = "parseRecurring"
       /\ \E i \in 1..Len(TemplateRecords) :
             \A now \in Nows : ~convertRecurringEvent(TemplateRecords[i], now).ok
    \/ /\ called = "parseDateRange"
       /\ \E i \in 1..Len(TemplateRecords) : ~convertDateRangeEvent(TemplateRecords[i]).ok
    \/ /\ called = "parseWeekly" /\ data.valid
       /\ \E k \in DOMAIN data.raw :
             /\ HasWeekPrefix(k)
             /\ data.raw[k].t = "array"
             /\ \E i \in 1..Len(data.raw[k].a) : ~convertWeeklyEvent(data.raw[k].a[i]).ok

\* C4: when the conversion of any record fails, wherever it stands in the
\* document, Parse returns an error and no events.
C4_AllOrNothing ==
    (pc = "done" /\ SomeRecordFails) => (err # "nil" /\ events = <<>>)

C4_Witness ==
    /\ pc = "done" /\ called = "parseSingle"
    /\ Len(TemplateRecords) = 2
    /\ convertSingleEvent(TemplateRecords[1]).ok
    /\ ~convertSingleEvent(TemplateRecords[2]).ok
    /\ err = "failed to convert event" /\ events = <<>>

\* C5: every returned event with allDay = false ends no earlier than it starts.
C5_TimedEndNotBeforeStart ==
    pc = "done" =>
        \A i \in 1..Len(events) :
            ~events[i].AllDay => events[i].EndTime >= events[i].StartTime

\* C6: every returned event with allDay = true starts and ends at midnight
\* and ends at least one calendar day after it starts.
C6_AllDayExclusiveEnd ==
    pc = "done" =>
        \A i \in 1..Len(events) :
            events[i].AllDay =>
                /\ SecOfDay(events[i].StartTime) = 0
                /\ SecOfDay(events[i].EndTime) = 0
                /\ DayOf(events[i].EndTime) >= DayOf(events[i].StartTime) + 1

\* The week key an event of the weekly documents was written under (the
\* events of the model are named after their key and their place).
WeekOf(e) == e.Name[1]

WeeklyDone == pc = "done" /\ called = "parseWeekly" /\ err = "nil"

\* C7: the weekly converter emits the week groups in ascending plain-string
\* order of their keys: week_1 before week_2, and week_10 before week_2.
C7_WeeksInKeyOrder ==
    WeeklyDone =>
        \A i, j \in 1..Len(events) :
            i < j =>
                /\ ~StrLess(WeekOf(events[j]), WeekOf(events[i]))
                /\ ~(WeekOf(events[i]) = KeyWeek2 /\ WeekOf(events[j]) = KeyWeek1)
                /\ ~(WeekOf(events[i]) = KeyWeek2 /\ WeekOf(events[j]) = KeyWeek10)

C7_Witness ==
    /\ WeeklyDone
    /\ Len(events) = 2
    /\ WeekOf(events[1]) = KeyWeek10
    /\ WeekOf(events[2]) = KeyWeek2

\* The events of the result that come from week key k, in result order.
EventsOfWeek(k) == LET FromK(e) == WeekOf(e) = k IN SelectSeq(events, FromK)

\* C8: on success the single, recurring and daterange dialects return one
\* event per record, the i-th named after the i-th record; the weekly
\* dialect returns the events of each week in the order of the week's array.
C8_InputOrderAndCount ==
    /\ (pc = "done" /\ err = "nil"
           /\ called \in {"parseSingle", "parseRecurring", "parseDateRange"}) =>
          /\ Len(events) = Len(TemplateRecords)
          /\ \A i \in 1..Len(events) : events[i].Name = Field(TemplateRecords[i], "name", "")
    /\ WeeklyDone =>
          \A k \in DOMAIN data.raw :
              (HasWeekPrefix(k) /\ data.raw[k].t = "array") =>
                  /\ Len(EventsOfWeek(k)) = Len(data.raw[k].a)
                  /\ \A i \in 1..Len(EventsOfWeek(k)) :
                        EventsOfWeek(k)[i].Name = data.raw[k].a[i].event_name

C8_Witness ==
    /\ pc = "done" /\ err = "nil" /\ called = "parseSingle"
    /\ Len(events) = 2
    /\ events[1].Name = "s1" /\ events[2].Name = "s2"

\* Seconds from midnight of a parsed time of day.
TimeOfDay(tm) == tm.hour * SecondsPerHour + tm.minute * SecondsPerMinute

IsTimeOfDay(tm) == tm.ok /\ tm.hour \in 0..23 /\ tm.minute \in 0..59

\* C9: a single-dialect record with all_day false whose end_time is earlier
\* in the day than its start_time ends at that time of day on the day after
\* its date; otherwise it ends on its date.
C9_OvernightRollsOneDay ==
    (pc = "done" /\ err = "nil" /\ called = "parseSingle") =>
        \A i \in 1..Len(events) :
            LET se    == TemplateRecords[i]
                start == ParseTime(Field(se, "start_time", <<>>))
                end   == ParseTime(Field(se, "end_time", <<>>))
                day   == DayOf(ParseDate(Field(se, "date", <<>>)).v)
            IN  (~Field(se, "all_day", FALSE) /\ Field(se, "end_time", <<>>) # <<>>
                    /\ IsTimeOfDay(start) /\ IsTimeOfDay(end)) =>
                    /\ SecOfDay(events[i].EndTime) = TimeOfDay(end)
                    /\ DayOf(events[i].EndTime) =
                           IF TimeOfDay(end) < TimeOfDay(start) THEN day + 1 ELSE day

C9_Witness ==
    /\ pc = "done" /\ err = "nil" /\ called = "parseSingle"
    /\ Len(events) = 1
    /\ Field(TemplateRecords[1], "start_time", <<>>) = <<"2","3",":","0","0">>
    /\ Field(TemplateRecords[1], "end_time", <<>>) = <<"0","1",":","0","0">>
    /\ ~Field(TemplateRecords[1], "all_day", FALSE)
    /\ DayOf(events[1].EndTime) = DayOf(events[1].StartTime) + 1

\* C10: exclude_weekends true with no by_day entries gives byDay exactly
\* [MO, TU, WE, TH, FR]; with by_day entries byDay is the normalized by_day
\* whatever exclude_weekends is.
C10_ExcludeWeekends ==
    (pc = "done" /\ err = "nil" /\ called = "parseRecurring") =>
        \A i \in 1..Len(events) :
            LET ri    == Field(TemplateRecords[i], "recurrence", <<>>)
                byDay == Field(ri, "by_day", <<>>)
            IN  /\ (Field(ri, "exclude_weekends", FALSE) /\ Len(byDay) = 0) =>
                       events[i].Recurrence.ByDay =
                           << <<"M","O">>, <<"T","U">>, <<"W","E">>, <<"T","H">>, <<"F","R">> >>
                /\ Len(byDay) > 0 =>
                       events[i].Recurrence.ByDay = [j \in 1..Len(byDay) |-> normalizeDay(byDay[j])]

C10_Witness ==
    /\ pc = "done" /\ err = "nil" /\ called = "parseRecurring"
    /\ Len(events) = 1
    /\ Field(Field(TemplateRecords[1], "recurrence", <<>>), "exclude_weekends", FALSE)
    /\ "by_day" \notin DOMAIN Field(TemplateRecords[1], "recurrence", <<>>)
    /\ events[1].Recurrence.ByDay = Weekdays

\* The event carries a recurrence descriptor.
HasRecurrence(e) == "none" \notin DOMAIN e.Recurrence

\* The frequency text of the i-th record of the events array.
FrequencyOf(i) == Field(Field(TemplateRecords[i], "recurrence", <<>>), "frequency", <<>>)

RecurringDone == pc = "done" /\ called = "parseRecurring"

\* C11: every rule of a returned event has one of the frequencies DAILY,
\* WEEKLY, MONTHLY, YEARLY, the upper-case form of the record's text; a
\* record with any other frequency, an empty or a missing one included,
\* makes Parse return an error and no events.
C11_FrequencyValidated ==
    /\ pc = "done" =>
          \A i \in 1..Len(events) :
              HasRecurrence(events[i]) =>
                  events[i].Recurrence.Frequency \in
                      { <<"D","A","I","L","Y">>, <<"W","E","E","K","L","Y">>,
                        <<"M","O","N","T","H","L","Y">>, <<"Y","E","A","R","L","Y">> }
    /\ RecurringDone =>
          /\ \A i \in 1..Len(events) :
                events[i].Recurrence.Frequency = ToUpper(FrequencyOf(i))
          /\ (\E i \in 1..Len(TemplateRecords) :
                 ToLower(FrequencyOf(i)) \notin
                     { <<"d","a","i","l","y">>, <<"w","e","e","k","l","y">>,
                       <<"m","o","n","t","h","l","y">>, <<"y","e","a","r","l","y">> }) =>
                (err # "nil" /\ events = <<>>)

C11_Witness ==
    /\ RecurringDone
    /\ Len(TemplateRecords) = 1
    /\ FrequencyOf(1) = <<"h","o","u","r","l","y">>
    /\ ParseTime(Field(TemplateRecords[1], "start_time", <<>>)).ok
    /\ err = "failed to convert event" /\ events = <<>>

\* C12: every rule produced by the recurring converter has an interval of
\* at least 1.
C12_IntervalPositive ==
    RecurringDone => \A i \in 1..Len(events) : events[i].Recurrence.Interval >= 1

\* C13: a returned event carries a recurrence descriptor exactly when the
\* recurring converter produced it, whatever fields its record has.
C13_RecurrenceOnlyFromRecurring ==
    (pc = "done" /\ err = "nil") =>
        \A i \in 1..Len(events) : HasRecurrence(events[i]) <=> called = "parseRecurring"

C13_Witness ==
    /\ pc = "done" /\ err = "nil" /\ called = "parseSingle"
    /\ Len(events) = 1
    /\ "recurrence" \in DOMAIN TemplateRecords[1]
    /\ ~HasRecurrence(events[1])

ParseTimeDone == pc = "done" /\ command = "ParseTime"

\* C18: for h in 1..12 and a minute m, the text h:mm with an am marker in
\* any letter case, with or without a space and periods, parses to
\* (h mod 12, m) and with a pm marker to ((h mod 12) + 12, m); "10:00am",
\* "10:00 AM" and "10:00 a.m." give (10, 0), "12:30pm" (12, 30) and
\* "12:15am" (0, 15).
C18_TwelveHourClock ==
    ParseTimeDone =>
        /\ \A h \in 1..12, m \in Minutes :
              /\ \A marker \in AmMarkers :
                    arg = ClockText(h, m, marker) =>
                        ret = [ok |-> TRUE, hour |-> h % 12, minute |-> m]
              /\ \A marker \in PmMarkers :
                    arg = ClockText(h, m, marker) =>
                        ret = [ok |-> TRUE, hour |-> (h % 12) + 12, minute |-> m]
        /\ arg \in { <<"1","0",":","0","0","a","m">>, <<"1","0",":","0","0"," ","A","M">>, <<"1","0",":","0","0"," ","a",".","m",".">> } =>
              ret = [ok |-> TRUE, hour |-> 10, minute |-> 0]
        /\ arg = <<"1","2",":","3","0","p","m">> => ret = [ok |-> TRUE, hour |-> 12, minute |-> 30]
        /\ arg = <<"1","2",":","1","5","a","m">> => ret = [ok |-> TRUE, hour |-> 0, minute |-> 15]

C18_Witness ==
    /\ ParseTimeDone
    /\ arg = <<"1","2",":","1","5","a","m">>
    /\ ret = [ok |-> TRUE, hour |-> 0, minute |-> 15]

ParseDateDone == pc = "done" /\ command = "ParseDate"

\* The layouts of the list, by their place, that parse the text.
MatchingLayouts(dateStr) ==
    {i \in 1..Len(DateFormats) : ParseInLocation(DateFormats[i], TrimSpace(dateStr)).ok}

\* C19: ParseDate returns the result of the first layout, in the order ISO,
\* US slash, EU hyphen, long month, short month, alternate ISO, that parses
\* the text; "2025-12-09", "12/09/2025", "09-12-2025" and
\* "December 9, 2025" give 9 December 2025 at midnight; a text no layout
\* parses gives an error.
C19_DateLayoutsInOrder ==
    ParseDateDone =>
        /\ ret.ok <=> MatchingLayouts(arg) # {}
        /\ ret.ok => \A i \in MatchingLayouts(arg) : ret.layout <= i
        /\ arg \in { <<"2","0","2","5","-","1","2","-","0","9">>, <<"1","2","/","0","9","/","2","0","2","5">>, <<"0","9","-","1","2","-","2","0","2","5">>, <<"D","e","c","e","m","b","e","r"," ","9",","," ","2","0","2","5">> } =>
              /\ ret.ok
              /\ CivilFromDays(EpochDay + DayOf(ret.v)) = [y |-> 2025, m |-> 12, d |-> 9]
              /\ SecOfDay(ret.v) = 0
        /\ arg = <<"2","0","2","5","-","1","2","-","0","9">> => ret.layout = 1
        /\ arg = <<"1","2","/","0","9","/","2","0","2","5">> => ret.layout = 2
        /\ arg = <<"0","9","-","1","2","-","2","0","2","5">> => ret.layout = 3
        /\ arg = <<"D","e","c","e","m","b","e","r"," ","9",","," ","2","0","2","5">> => ret.layout = 4
        /\ arg = <<"D","e","c"," ","9",","," ","2","0","2","5">> => ret.layout = 5
        /\ arg = <<"2","0","2","5","/","1","2","/","0","9">> => ret.layout = 6
        /\ arg \in { <<"9"," ","D","e","c","e","m","b","e","r"," ","2","0","2","5">>, <<"2","0","2","5","-","0","2","-","3","0">>, <<"2","0","2","5","-","1","3","-","0","1">>, <<>> } => ~ret.ok

C19_Witness ==
    /\ ParseDateDone
    /\ arg = <<"0","9","-","1","2","-","2","0","2","5">>
    /\ ret.ok /\ ret.layout = 3
    /\ CivilFromDays(EpochDay + DayOf(ret.v)) = [y |-> 2025, m |-> 12, d |-> 9]

RenderDone == pc = "done" /\ command \in {"ToRRuleString", "buildRRule"}

\* The fields of a rendered rule: the text after the RRULE: key, cut at the
\* semicolons.
FieldsOf(text) == Split(TrimPrefix(text, <<"R","R","U","L","E",":">>), ";")

\* The fields the rule is to render to, in their order, the timestamp of
\* UNTIL left open.
ExpectedFields(r) ==
    << <<"F","R","E","Q","=">> \o r.Frequency >>
    \o (IF r.Interval > 1 THEN << <<"I","N","T","E","R","V","A","L","=">> \o Decimal(r.Interval) >> ELSE <<>>)
    \o (IF HasUntil(r) THEN << <<"U","N","T","I","L","=">> >> ELSE <<>>)
    \o (IF r.Count > 0 THEN << <<"C","O","U","N","T","=">> \o Decimal(r.Count) >> ELSE <<>>)
    \o (IF Len(r.ByDay) > 0 THEN << <<"B","Y","D","A","Y","=">> \o ByDayLoop(r.ByDay, 1) >> ELSE <<>>)

\* C14: a rendered rule is FREQ=<frequency> followed, in this order, by
\* ;INTERVAL=<n> only if interval > 1, ;UNTIL=<timestamp> only if until is
\* set, ;COUNT=<n> only if count > 0 and ;BYDAY=<codes joined by commas>
\* only if byDay is not empty, with no empty field and no trailing
\* separator (read after the RRULE: key both renderers put in front);
\* {WEEKLY, interval 2, byDay [MO, WE]} renders as
\* FREQ=WEEKLY;INTERVAL=2;BYDAY=MO,WE.
C14_FieldsInFixedOrder ==
    RenderDone =>
        /\ Len(FieldsOf(ret)) = Len(ExpectedFields(arg))
        /\ \A i \in 1..Len(FieldsOf(ret)) :
              i <= Len(ExpectedFields(arg)) =>
                  IF ExpectedFields(arg)[i] = <<"U","N","T","I","L","=">>
                  THEN HasPrefix(FieldsOf(ret)[i], <<"U","N","T","I","L","=">>) /\ FieldsOf(ret)[i] # <<"U","N","T","I","L","=">>
                  ELSE FieldsOf(ret)[i] = ExpectedFields(arg)[i]
        /\ (arg.Frequency = <<"W","E","E","K","L","Y">> /\ arg.Interval = 2 /\ ~HasUntil(arg)
              /\ arg.Count = 0 /\ arg.ByDay = << <<"M","O">>, <<"W","E">> >>) =>
              TrimPrefix(ret, <<"R","R","U","L","E",":">>) = <<"F","R","E","Q","=","W","E","E","K","L","Y",";","I","N","T","E","R","V","A","L","=","2",";","B","Y","D","A","Y","=","M","O",",","W","E">>

\* The value of the first field of a rendered rule that starts with key,
\* the empty text when there is none.
ValueOf(text, key) ==
    LET HasKey(f) == HasPrefix(f, key)
        hits == SelectSeq(FieldsOf(text), HasKey)
    IN  IF hits = <<>> THEN <<>> ELSE Drop(hits[1], Len(key))

\* C20: the INTERVAL of a rule with interval > 1 and the COUNT of a rule
\* with count > 0 are rendered as the decimal numerals of these integers,
\* for values of 10 and more too, by the exporter's renderer and by the
\* remote adapter's, so that both render the same numbers.
C20_DecimalNumerals ==
    RenderDone =>
        /\ arg.Interval > 1 => ValueOf(ret, <<"I","N","T","E","R","V","A","L","=">>) = Decimal(arg.Interval)
        /\ arg.Count > 0 => ValueOf(ret, <<"C","O","U","N","T","=">>) = Decimal(arg.Count)
        /\ ValueOf(ToRRuleString(arg), <<"I","N","T","E","R","V","A","L","=">>) = ValueOf(buildRRule(arg, loc), <<"I","N","T","E","R","V","A","L","=">>)
        /\ ValueOf(ToRRuleString(arg), <<"C","O","U","N","T","=">>) = ValueOf(buildRRule(arg, loc), <<"C","O","U","N","T","=">>)

\* export wrote the entries of the parsed events.
Exported == command = "export" /\ pc = "returned" /\ Len(ics) = Len(events)

\* The digits of a date text: 2025-12-11 and 20251211 are the same date.
DigitsOf(s) == SelectSeq(s, IsDigit)

\* C15: for an all-day event the exporter writes as DTEND the date of the
\* event's endTime, the day after the last inclusive day, and so the same
\* start and end dates as the remote adapter gives for the event.
C15_ExporterKeepsExclusiveEnd ==
    Exported =>
        \A i \in 1..Len(events) :
            events[i].AllDay =>
                /\ ics[i].DtEnd.value = Format(events[i].EndTime, LayoutBasicDate)
                /\ ics[i].DtEnd.value = DigitsOf(convertToGoogleEvent(events[i], loc).End.Date)
                /\ ics[i].DtStart.value = DigitsOf(convertToGoogleEvent(events[i], loc).Start.Date)

\* add created the client, called CreateEvents and returned.
CreateEventsReturned ==
    /\ pc = "returned"
    /\ \E k \in 1..Len(log) : log[k].op = "NewClient" /\ log[k].ok

\* The create requests of the batch, in the order they were issued.
Requests ==
    LET IsInsert(entry) == entry.op = "Insert"
    IN  SelectSeq(log, IsInsert)

\* C16: CreateEvents issues exactly one create request for every input
\* event even when earlier requests failed; the returned list has one
\* result per input event, with Success false and Error set exactly for
\* the requests that failed, and the batch-level error is nil.
C16_FailuresDoNotStopTheBatch ==
    CreateEventsReturned =>
        /\ Len(Requests) = Len(events)
        /\ \A i \in 1..Len(Requests) :
              /\ Requests[i].request = i
              /\ i <= Len(events) => Requests[i].event = convertToGoogleEvent(events[i], loc)
        /\ Len(results) = Len(events)
        /\ \A i \in 1..Len(results) :
              i <= Len(Requests) =>
                  /\ results[i].Success = Requests[i].ok
                  /\ (results[i].Error # "nil") = ~Requests[i].ok
        /\ log[Len(log)] = Returned("nil")

\* A batch of two whose first request failed and whose second succeeded.
C16_Witness ==
    /\ CreateEventsReturned
    /\ Len(events) = 2 /\ Len(results) = 2
    /\ ~results[1].Success /\ results[1].Error # "nil"
    /\ results[2].Success

\* C17: when dry run is enabled, add only previews the parsed events: in
\* the command-line mode and in the interactive mode no calendar client is
\* created and no event-creation request is sent.
C17_DryRunSendsNothing ==
    (command \in {"add", "interactive add"} /\ dryRun) =>
        /\ results = <<>>
        /\ \A k \in 1..Len(log) : log[k].op \notin {"NewClient", "Insert"}

\* C21: the UNTIL value of a rendered rule is the rule's until instant,
\* the end of the until date in the parser's timezone, converted to UTC and
\* written in basic format with the Z suffix, whatever the parser's
\* timezone, in the exporter's rendering and in the remote adapter's.
C21_UntilInUTC ==
    (RenderDone /\ HasUntil(arg)) =>
        /\ SecOfDay(arg.Until.t) = 23 * SecondsPerHour + 59 * SecondsPerMinute + 59
        /\ ValueOf(ret, <<"U","N","T","I","L","=">>) = Format(UTC(arg.Until.t, loc), LayoutBasicStamp)
        /\ ValueOf(ret, <<"U","N","T","I","L","=">>)[Len(ValueOf(ret, <<"U","N","T","I","L","=">>))] = "Z"

SingleDone == pc = "done" /\ called = "parseSingle"

\* The single-dialect record i is timed and its date and start time parse.
TimedSingle(i) ==
    /\ ~Field(TemplateRecords[i], "all_day", FALSE)
    /\ ParseDate(Field(TemplateRecords[i], "date", <<>>)).ok
    /\ ParseTime(Field(TemplateRecords[i], "start_time", <<>>)).ok

\* The instant of the end_time of record i on the record's date.
EndOnDate(i) ==
    CombineDateTime(ParseDate(Field(TemplateRecords[i], "date", <<>>)).v,
                    ParseTime(Field(TemplateRecords[i], "end_time", <<>>)).hour,
                    ParseTime(Field(TemplateRecords[i], "end_time", <<>>)).minute)

\* C22: for a single-dialect record with all_day false the end is taken
\* from end_time when it is not empty (an unparseable duration then causes
\* no error), otherwise it is the start plus the parsed duration when
\* duration is not empty, otherwise the start plus one hour.
C22_EndPrecedence ==
    SingleDone =>
        /\ err = "nil" =>
              \A i \in 1..Len(events) :
                  (i <= Len(TemplateRecords) /\ TimedSingle(i)) =>
                      IF Field(TemplateRecords[i], "end_time", <<>>) # <<>>
                      THEN /\ ParseTime(Field(TemplateRecords[i], "end_time", <<>>)).ok
                           /\ events[i].EndTime =
                                  IF EndOnDate(i) < events[i].StartTime
                                  THEN EndOnDate(i) + SecondsPerDay ELSE EndOnDate(i)
                      ELSE IF Field(TemplateRecords[i], "duration", <<>>) # <<>>
                      THEN /\ ParseDuration(Field(TemplateRecords[i], "duration", <<>>)).ok
                           /\ events[i].EndTime = events[i].StartTime
                                  + ParseDuration(Field(TemplateRecords[i], "duration", <<>>)).v
                      ELSE events[i].EndTime = events[i].StartTime + SecondsPerHour
        /\ (Len(TemplateRecords) = 1 /\ TimedSingle(1)) =>
              (err = "nil") =
                  IF Field(TemplateRecords[1], "end_time", <<>>) # <<>>
                  THEN ParseTime(Field(TemplateRecords[1], "end_time", <<>>)).ok
                  ELSE IF Field(TemplateRecords[1], "duration", <<>>) # <<>>
                  THEN ParseDuration(Field(TemplateRecords[1], "duration", <<>>)).ok
                  ELSE TRUE

\* A record with an end_time and an unparseable duration was converted.
C22_Witness ==
    /\ SingleDone /\ err = "nil" /\ Len(events) = 1 /\ Len(TemplateRecords) = 1
    /\ TimedSingle(1)
    /\ Field(TemplateRecords[1], "end_time", <<>>) # <<>>
    /\ Field(TemplateRecords[1], "duration", <<>>) = DurationBad
    /\ events[1].EndTime # events[1].StartTime + SecondsPerHour

DateRangeDone == pc = "done" /\ called = "parseDateRange"

\* The daterange record i is all-day by its fields.
AllDayByFields(i) ==
    \/ Field(TemplateRecords[i], "all_day", FALSE)
    \/ /\ Field(TemplateRecords[i], "start_time", <<>>) = <<>>
       /\ Field(TemplateRecords[i], "end_time", <<>>) = <<>>

\* Both dates of the daterange record i parse.
DatesParse(i) ==
    /\ ParseDate(Field(TemplateRecords[i], "start_date", <<>>)).ok
    /\ ParseDate(Field(TemplateRecords[i], "end_date", <<>>)).ok

\* C23: a daterange record is all-day exactly when all_day is true or both
\* start_time and end_time are absent; its start is then start_date at
\* midnight and its end is end_date plus one calendar day at midnight, and
\* the time fields are not parsed, so an unparseable time causes no error.
C23_AllDayInference ==
    DateRangeDone =>
        /\ err = "nil" =>
              \A i \in 1..Len(events) :
                  (i <= Len(TemplateRecords) /\ DatesParse(i)) =>
                      /\ events[i].AllDay = AllDayByFields(i)
                      /\ events[i].AllDay =>
                            /\ events[i].StartTime =
                                   ParseDate(Field(TemplateRecords[i], "start_date", <<>>)).v
                            /\ SecOfDay(events[i].StartTime) = 0
                            /\ events[i].EndTime =
                                   ParseDate(Field(TemplateRecords[i], "end_date", <<>>)).v
                                       + SecondsPerDay
        /\ (Len(TemplateRecords) = 1 /\ DatesParse(1) /\ AllDayByFields(1)) => err = "nil"

\* A record with all_day set and an unparseable start_time was converted
\* to an all-day event.
C23_Witness ==
    /\ DateRangeDone /\ err = "nil" /\ Len(events) = 1 /\ Len(TemplateRecords) = 1
    /\ events[1].AllDay
    /\ Field(TemplateRecords[1], "all_day", FALSE)
    /\ Field(TemplateRecords[1], "start_time", <<>>) = TimeBad

\* The first element of a non-empty events array of the document has the
\* field.
FirstEventHas(field) ==
    /\ data.valid
    /\ KeyEvents \in DOMAIN data.raw
    /\ data.raw[KeyEvents].t = "array"
    /\ Len(data.raw[KeyEvents].a) > 0
    /\ IsObject(data.raw[KeyEvents].a[1])
    /\ field \in DOMAIN data.raw[KeyEvents].a[1]

\* C24: for a document with no string-valued format field and no
\* weekly-style key, detection looks only at the first element of a
\* non-empty events array: a recurrence field there selects recurring (also
\* next to an end_date), otherwise an end_date field selects daterange, and
\* every other case selects single.
C24_FirstEventDecides ==
    (pc = "done" /\ AutoMode /\ ~HasFormatString /\ ~HasWeekStyleKey) =>
        format = IF FirstEventHas("recurrence") THEN FormatRecurring
                 ELSE IF FirstEventHas("end_date") THEN FormatDateRange
                 ELSE FormatSingle

\* The document with only the top-level keys the detector takes as weekly.
DetectorWeeks ==
    Doc([k \in {key \in DOMAIN data.raw : IsWeekKey(key)} |-> data.raw[k]])

\* C25: the weekly converter processes exactly the top-level keys matching
\* the detector's weekly rule (lowercased, starting with week_ or "week ",
\* or equal to week1): a key passes the converter's filter if and only if
\* it matches the detector's rule, and every other key contributes no
\* events and no error.
C25_ConverterKeysAreDetectorKeys ==
    (pc = "done" /\ called = "parseWeekly" /\ data.valid) =>
        /\ \A key \in DOMAIN data.raw : HasWeekPrefix(key) = IsWeekKey(key)
        /\ \E o \in KeyOrders(DetectorWeeks) :
              /\ parseWeekly(DetectorWeeks, o).events = events
              /\ parseWeekly(DetectorWeeks, o).err = err

ParseDurationDone == pc = "done" /\ command = "ParseDuration"

\* The text the strategies of ParseDuration are given.
Cleaned == TrimSpace(ToLower(arg))

\* The third strategy reads an hour count or a minute count in the text.
Extracts(s) == FindStringSubmatch(s).ok

\* C26: ParseDuration tries the strict compact syntax, then the text with
\* the unit words normalized to h and m, then the extraction of an hour
\* count and a minute count, and returns the result of the first strategy
\* that succeeds; it fails only when all three fail, and a text written
\* with unit words yields the same duration as its compact form.
C26_StrategiesInOrder ==
    ParseDurationDone =>
        /\ GoParseDuration(Cleaned).ok => ret = GoParseDuration(Cleaned)
        /\ (~GoParseDuration(Cleaned).ok /\ GoParseDuration(NormalizeUnits(Cleaned)).ok) =>
              ret = GoParseDuration(NormalizeUnits(Cleaned))
        /\ ret.ok = \/ GoParseDuration(Cleaned).ok
                    \/ GoParseDuration(NormalizeUnits(Cleaned)).ok
                    \/ Extracts(NormalizeUnits(Cleaned))
        /\ \A f \in DurationForms :
              arg = f.words => ret.ok /\ ret.v = GoParseDuration(f.compact).v

DayCodes == {DayMO, DayTU, DayWE, DayTH, DayFR, DaySA, DaySU}

\* C27: every element of byDay in a rule of a returned event is one of the
\* codes MO, TU, WE, TH, FR, SA, SU; the day names of the record, in any
\* letter case and with spaces around them, arrive as their codes, one per
\* name, and no other text reaches byDay.
C27_ByDayHoldsCodesOnly ==
    (RecurringDone /\ err = "nil") =>
        \A i \in 1..Len(events) :
            HasRecurrence(events[i]) =>
                /\ \A j \in 1..Len(events[i].Recurrence.ByDay) :
                      events[i].Recurrence.ByDay[j] \in DayCodes
                /\ (i <= Len(TemplateRecords)
                      /\ Len(Field(Field(TemplateRecords[i], "recurrence", <<>>), "by_day", <<>>)) > 0) =>
                      Len(events[i].Recurrence.ByDay) =
                          Len(Field(Field(TemplateRecords[i], "recurrence", <<>>), "by_day", <<>>))

\* What CreateEvents did, in the order it did it: each create request (a
\* blocking call, logged with its outcome), each call of the progress
\* callback and each delay.
Batch ==
    LET InBatch(entry) == entry.op \in {"Insert", "callback", "Sleep"}
    IN  SelectSeq(log, InBatch)

\* C28: CreateEvents issues the requests one at a time in input order;
\* the callback is called once per event with (i, total) after request i
\* has returned and before request i+1 starts; the delay is taken after
\* every request except the last, so a batch of n events waits n-1 times
\* and a batch of 0 or 1 events never waits.
C28_SequentialThrottle ==
    CreateEventsReturned =>
        /\ Len(Batch) = IF Len(events) = 0 THEN 0 ELSE 3 * Len(events) - 1
        /\ \A i \in 1..Len(events) :
              /\ Batch[3 * i - 2].op = "Insert"
              /\ Batch[3 * i - 2].request = i
              /\ Batch[3 * i - 2].event = convertToGoogleEvent(events[i], loc)
              /\ Batch[3 * i - 1].op = "callback"
              /\ Batch[3 * i - 1].current = i
              /\ Batch[3 * i - 1].total = Len(events)
              /\ Batch[3 * i - 1].success = Batch[3 * i - 2].ok
              /\ i < Len(events) => Batch[3 * i].op = "Sleep" /\ Batch[3 * i].after = i

\* A batch of two events waited once, between its two requests.
C28_Witness ==
    /\ CreateEventsReturned
    /\ Len(events) = 2
    /\ Len(Batch) = 5
    /\ Batch[3].op = "Sleep" /\ Batch[4].op = "Insert" /\ Batch[4].request = 2

\* The calls of the progress callback, in their order.
Callbacks ==
    LET IsCallback(entry) == entry.op = "callback"
    IN  SelectSeq(log, IsCallback)

ExportedDescription(i) ==
    IF ics[i].Description = <<>> THEN <<>> ELSE ics[i].Description[1]

\* C30: the exported entry of an event has the description text the remote
\* adapter gives the event; when the event has a link, the exported
\* description contains the Useful Links section, also when the event's
\* own description is empty.
C30_ExporterKeepsLinks ==
    Exported =>
        \A i \in 1..Len(events) :
            /\ ExportedDescription(i) = convertToGoogleEvent(events[i], loc).Description
            /\ Len(events[i].Links) > 0 =>
                  Contains(ExportedDescription(i), <<"U","s","e","f","u","l"," ","L","i","n","k","s",":">>)

====
